---- MODULE Spec2Model ----
(***************************************************************************)
(* Cuckoo filter (src/cuckoofilter/src/cuckoofilter.h) and cuckoo hash     *)
(* table (src/cuckoohashtable/hashtable/cuckoohashtable.hh).               *)
(*                                                                         *)
(* 64-bit unsigned values (size_t, uint64_t items, hash values) are kept   *)
(* as words: tuples of 8 bytes, least significant byte first, so that the  *)
(* shift, the +1, the multiplication by the MurmurHash2 constant and the   *)
(* XOR of the index functions are computed modulo 2^64 as the code does.   *)
(***************************************************************************)
EXTENDS Integers, Naturals, Sequences, FiniteSets, Bags, TLC

VARIABLES
    probe,          \* inputs and running value of an index-function evaluation
    nb_,            \* filter: table_->NumBuckets()
    hp_,            \* filter: hp_
    seeds_,         \* filter: seeds_
    table_,         \* filter: table_ (bucket -> slot -> tag, 0 = empty)
    num_items_,     \* filter: num_items_
    victim_,        \* filter: victim_
    f_ins,          \* filter history: item -> Add(item)=Ok minus Delete(item)=Ok
    f_last,         \* filter history: the last call and its result
    f_flags,        \* filter history: what has happened so far
    slot_per_bucket, \* table: slot_per_bucket(), the template parameter SLOT_PER_BUCKET
    hashpower,      \* table: buckets_.hashpower()
    hash_fn_,       \* table: hash_fn_ (which of the modelled hash functions)
    buckets_,       \* table: buckets_ (bucket -> slot -> occupied flag and key storage)
    ht_num_items_,  \* table: num_items_
    t_pc,           \* table: "idle", or "run_cuckoo" inside the while loop of run_cuckoo
    t_call,         \* table: the paired_insert call in progress (start: buckets_ at its call)
    t_ins,          \* table history: the keys whose insertion returned ok
    t_last          \* table history: the last call and its result

filterVars == <<nb_, hp_, seeds_, table_, num_items_, victim_, f_ins, f_last, f_flags>>

tableVars == <<slot_per_bucket, hashpower, hash_fn_, buckets_, ht_num_items_, t_pc, t_call,
               t_ins, t_last>>

vars == <<probe, filterVars, tableVars>>

----------------------------------------------------------------------------
(* 64-bit word arithmetic                                                  *)

\* bytes in a size_t / uint64_t
WordLen == 8

RECURSIVE Pow2(_)
Pow2(n) == IF n = 0 THEN 1 ELSE 2 * Pow2(n - 1)

\* byte i (1 = least significant) of a natural below 2^31
NatByte(n, i) ==
    IF i = 1 THEN n % 256
    ELSE IF i = 2 THEN (n \div 256) % 256
    ELSE IF i = 3 THEN (n \div 65536) % 256
    ELSE IF i = 4 THEN (n \div 16777216) % 256
    ELSE 0

\* the word of a natural below 2^31
WFromNat(n) ==
    <<NatByte(n, 1), NatByte(n, 2), NatByte(n, 3), NatByte(n, 4),
      NatByte(n, 5), NatByte(n, 6), NatByte(n, 7), NatByte(n, 8)>>

WByte(w, i) == IF i \in 1..WordLen THEN w[i] ELSE 0

\* bitwise XOR of two naturals
RECURSIVE XorNat(_, _)
XorNat(a, b) ==
    IF a = 0 THEN b
    ELSE IF b = 0 THEN a
    ELSE (((a % 2) + (b % 2)) % 2) + 2 * XorNat(a \div 2, b \div 2)

\* w1 ^ w2
WXor(w1, w2) ==
    <<XorNat(w1[1], w2[1]), XorNat(w1[2], w2[2]), XorNat(w1[3], w2[3]), XorNat(w1[4], w2[4]),
      XorNat(w1[5], w2[5]), XorNat(w1[6], w2[6]), XorNat(w1[7], w2[7]), XorNat(w1[8], w2[8])>>

\* byte i of w >> (8 * q + r)
ShrByte(w, q, r, i) ==
    ((WByte(w, i + q) \div Pow2(r)) + (WByte(w, i + q + 1) % Pow2(r)) * Pow2(8 - r)) % 256

\* w >> k, 0 <= k < 64
WShr(w, k) ==
    LET q == k \div 8
        r == k % 8
    IN <<ShrByte(w, q, r, 1), ShrByte(w, q, r, 2), ShrByte(w, q, r, 3), ShrByte(w, q, r, 4),
         ShrByte(w, q, r, 5), ShrByte(w, q, r, 6), ShrByte(w, q, r, 7), ShrByte(w, q, r, 8)>>

\* carry into byte i of w + 1
RECURSIVE Add1Carry(_, _)
Add1Carry(w, i) == IF i = 1 THEN 1 ELSE IF w[i - 1] = 255 THEN Add1Carry(w, i - 1) ELSE 0

\* byte i of (w + 1) mod 2^64
Add1Byte(w, i) == (w[i] + Add1Carry(w, i)) % 256

\* (w + 1) mod 2^64
WAdd1(w) ==
    <<Add1Byte(w, 1), Add1Byte(w, 2), Add1Byte(w, 3), Add1Byte(w, 4),
      Add1Byte(w, 5), Add1Byte(w, 6), Add1Byte(w, 7), Add1Byte(w, 8)>>

\* sum over i in 1..k of a[i] * b[k + 1 - i]: column k of the schoolbook product
RECURSIVE MulColumn(_, _, _, _)
MulColumn(a, b, k, i) == IF i > k THEN 0 ELSE a[i] * b[k + 1 - i] + MulColumn(a, b, k, i + 1)

\* column k of the product plus the carry of the columns below it
RECURSIVE MulAcc(_, _, _)
MulAcc(a, b, k) == MulColumn(a, b, k, 1) + (IF k = 1 THEN 0 ELSE MulAcc(a, b, k - 1) \div 256)

\* (a * b) mod 2^64
WMul(a, b) ==
    <<MulAcc(a, b, 1) % 256, MulAcc(a, b, 2) % 256, MulAcc(a, b, 3) % 256, MulAcc(a, b, 4) % 256,
      MulAcc(a, b, 5) % 256, MulAcc(a, b, 6) % 256, MulAcc(a, b, 7) % 256, MulAcc(a, b, 8) % 256>>

\* (the number made of bytes i..hi of w) % n, for a natural n below 2^22
RECURSIVE ModBytes(_, _, _, _)
ModBytes(w, i, hi, n) == IF i > hi THEN 0 ELSE (w[i] + 256 * ModBytes(w, i + 1, hi, n)) % n

\* w % n
WModNat(w, n) == ModBytes(w, 1, WordLen, n)

\* (uint32_t)(w >> 32) % n
WHigh32ModNat(w, n) == ModBytes(w, 5, WordLen, n)

----------------------------------------------------------------------------
(* Index functions                                                         *)

\* 0xc6a4a7935bd1e995, the hash constant from 64-bit MurmurHash2
MurmurConst == <<149, 233, 209, 91, 147, 167, 164, 198>>

\* cuckoo_hashtable::hashsize
hashsize(hp) == Pow2(hp)

\* cuckoo_hashtable::hashmask, applied: w & hashmask(hp)
AndHashmask(w, hp) == WModNat(w, hashsize(hp))

\* cuckoo_hashtable::index_hash
index_hash(hp, hv) == AndHashmask(hv, hp)

\* cuckoo_hashtable::alt_index
\* alt_index reduced modulo a bucket count that is not a power of two instead
\* of masked with hashmask(hp)
alt_index_mod(hp, hv, index) ==
    LET tag == WAdd1(WShr(hv, hp))
    IN WModNat(WXor(WFromNat(index), WMul(tag, MurmurConst)), hashsize(hp) + 1)

alt_index(hp, hv, index) ==
    LET tag == WAdd1(WShr(hv, hp))
    IN AndHashmask(WXor(WFromNat(index), WMul(tag, MurmurConst)), hp)

\* CuckooFilter::IndexHash
IndexHash(item, nb) == WHigh32ModNat(item, nb)

\* CuckooFilter::AltIndex; item is the ItemType argument (an item, or a tag
\* converted to ItemType), hp is hp_, nb is table_->NumBuckets()
AltIndex(index, item, hp, nb) ==
    LET fp == WAdd1(WShr(item, hp))
    IN WModNat(WXor(WFromNat(index), WMul(fp, MurmurConst)), nb)

----------------------------------------------------------------------------
(* Evaluation of the index functions on drawn inputs                       *)

\* largest hash power drawn for an index-function evaluation
MaxProbeHp == 3

\* largest filter bucket count drawn for an index-function evaluation
MaxProbeNb == 6

\* 64-bit inputs (hash values, items): 0, 1, 2, 5, 2^32 - 1, 2^32 + 7,
\* 0x8000000000000000, 0x0123456789abcdef, 2^64 - 2, 2^64 - 1
ProbeWords ==
    << WFromNat(0), WFromNat(1), WFromNat(2), WFromNat(5),
       <<255, 255, 255, 255, 0, 0, 0, 0>>,
       <<7, 0, 0, 0, 1, 0, 0, 0>>,
       <<0, 0, 0, 0, 0, 0, 0, 128>>,
       <<239, 205, 171, 137, 103, 69, 35, 1>>,
       <<254, 255, 255, 255, 255, 255, 255, 255>>,
       <<255, 255, 255, 255, 255, 255, 255, 255>> >>

\* the inputs of one evaluation: which class, hash power, bucket count,
\* the 64-bit argument, the starting bucket index
ProbeInputs ==
    {[kind |-> "table", hp |-> h, nb |-> hashsize(h), x |-> w, i |-> j] :
        h \in 0..MaxProbeHp, w \in 1..Len(ProbeWords), j \in 0..(hashsize(MaxProbeHp) - 1)}
    \cup
    {[kind |-> "filter", hp |-> h, nb |-> n, x |-> w, i |-> j] :
        h \in 0..MaxProbeHp, n \in 1..MaxProbeNb, w \in 1..Len(ProbeWords), j \in 0..(MaxProbeNb - 1)}

ProbeInit ==
    probe \in {[in |-> p, cur |-> p.i, n |-> 0] : p \in {q \in ProbeInputs : q.i < q.nb}}

\* cur = alt_index(hp, hv, cur)
ProbeTableAlt ==
    /\ probe.in.kind = "table"
    /\ probe.n < 2
    /\ probe' = [probe EXCEPT !.cur = alt_index(probe.in.hp, ProbeWords[probe.in.x], probe.cur),
                              !.n = probe.n + 1]
    /\ UNCHANGED <<filterVars, tableVars>>

\* cur = AltIndex(cur, x)
ProbeFilterAlt ==
    /\ probe.in.kind = "filter"
    /\ probe.n < 2
    /\ probe' = [probe EXCEPT !.cur = AltIndex(probe.cur, ProbeWords[probe.in.x], probe.in.hp, probe.in.nb),
                              !.n = probe.n + 1]
    /\ UNCHANGED <<filterVars, tableVars>>

----------------------------------------------------------------------------
(* Cuckoo filter: CuckooFilter<uint64_t, bits_per_item>                    *)

Ok == "Ok"
NotFound == "NotFound"
NotEnoughSpace == "NotEnoughSpace"
NotSupported == "NotSupported"
\* a call that returns no Status: std::vector::at throws std::out_of_range
OutOfRange == "out_of_range"

\* maximum number of cuckoo kicks before claiming failure
kMaxCuckooCount == 500

\* template parameter bits_per_item of the modelled instance
bits_per_item == 2

\* the slot a full bucket gives up when a tag is inserted with kickout
KickSlot == 0

\* the modelled filters: bucket count (seeds.size()), hp, seed table, and the
\* slots per bucket (assoc) of the bucket store TableType
FilterConfigs ==
    << [nb |-> 2, hp |-> 1, seeds |-> <<0, 1>>, assoc |-> 2],
       [nb |-> 4, hp |-> 2, seeds |-> <<0, 0, 0, 0>>, assoc |-> 1],
       [nb |-> 3, hp |-> 2, seeds |-> <<0, 0, 0>>, assoc |-> 1],
       [nb |-> 2, hp |-> 1, seeds |-> <<1, 0>>, assoc |-> 1] >>

\* the largest number below 2^bits_per_item
MaxTag == Pow2(bits_per_item) - 1

\* the callers keep at most this many items in the filter at a time
MaxLive == 3

\* the callers copy at most this many tags into the filter with CopyInsert
MaxCopies == 1
\* what a copied tag counts for in the callers' budget MaxLive (an item
\* counts 1)
CopyLoad == 2

\* the 64-bit items the callers use:
\*   1: 0x0000000000000001   2: 0x0000000000000005
\*   3: 0x0000000000000002   4: 0x0000000700000003
\*   5: 0x0000000000000004
ItemWords ==
    << <<1, 0, 0, 0, 0, 0, 0, 0>>,
       <<5, 0, 0, 0, 0, 0, 0, 0>>,
       <<2, 0, 0, 0, 0, 0, 0, 0>>,
       <<3, 0, 0, 0, 7, 0, 0, 0>>,
       <<4, 0, 0, 0, 0, 0, 0, 0>> >>

Items == 1..Len(ItemWords)

\* TableType::kTagsPerBucket, the slots per bucket of this filter's table_
kTagsPerBucket == Cardinality(DOMAIN table_[0])

Slots == 0..(kTagsPerBucket - 1)

\* HashFamily::operator()(item, seed): the keyed hasher, a 64-bit digest
Hasher(item, seed) == WMul(item, WFromNat(2 * seed + 1))

\* TagHash without the folding of tag 0 into tag 1
TagHashRaw(hv) == WModNat(hv, Pow2(bits_per_item))

\* CuckooFilter::TagHash; hv is the digest, of which the uint32_t parameter
\* keeps the low 32 bits
TagHash(hv) ==
    LET tag == WModNat(hv, Pow2(bits_per_item))
    IN tag + (IF tag = 0 THEN 1 ELSE 0)

\* CuckooFilter::GenerateIndexTagHash
GenerateIndexTagHash(item, seeds, nb) ==
    LET index == IndexHash(item, nb)
    IN [index |-> index, tag |-> TagHash(Hasher(item, seeds[index + 1]))]

\* CuckooFilter::GenerateTagHashes
GenerateTagHashes(item, seeds, hp, nb) ==
    LET i1 == IndexHash(item, nb)
        i2 == AltIndex(i1, item, hp, nb)
    IN [i1 |-> i1, i2 |-> i2,
        tag1 |-> TagHash(Hasher(item, seeds[i1 + 1])),
        tag2 |-> TagHash(Hasher(item, seeds[i2 + 1]))]

\* the first slot from j on of bucket content b that holds tag, or -1
RECURSIVE FirstSlotWith(_, _, _)
FirstSlotWith(b, tag, j) ==
    IF j >= kTagsPerBucket THEN -1
    ELSE IF b[j] = tag THEN j
    ELSE FirstSlotWith(b, tag, j + 1)

\* InsertTagToBucket evicting from a full bucket whatever kickout says
InsertTagToBucketKick(tbl, i, tag, kickout) ==
    LET j == FirstSlotWith(tbl[i], 0, 0)
    IN IF j # -1
       THEN [ok |-> TRUE, tbl |-> [tbl EXCEPT ![i][j] = tag], oldtag |-> 0]
       ELSE [ok |-> FALSE, tbl |-> [tbl EXCEPT ![i][KickSlot] = tag], oldtag |-> tbl[i][KickSlot]]

\* TableType::InsertTagToBucket(i, tag, kickout, oldtag)
InsertTagToBucket(tbl, i, tag, kickout) ==
    LET j == FirstSlotWith(tbl[i], 0, 0)
    IN IF j # -1
       THEN [ok |-> TRUE, tbl |-> [tbl EXCEPT ![i][j] = tag], oldtag |-> 0]
       ELSE IF kickout
            THEN [ok |-> FALSE, tbl |-> [tbl EXCEPT ![i][KickSlot] = tag], oldtag |-> tbl[i][KickSlot]]
            ELSE [ok |-> FALSE, tbl |-> tbl, oldtag |-> 0]

\* TableType::DeleteTagFromBucket(i, tag)
DeleteTagFromBucket(tbl, i, tag) ==
    LET j == FirstSlotWith(tbl[i], tag, 0)
    IN IF j # -1
       THEN [ok |-> TRUE, tbl |-> [tbl EXCEPT ![i][j] = 0]]
       ELSE [ok |-> FALSE, tbl |-> tbl]

\* TableType::CopyTagToBucket(i, j, tag): the tag is written into slot j of
\* bucket i when that slot is empty, and refused when it is occupied
CopyTagToBucket(tbl, i, j, tag) ==
    IF tbl[i][j] = 0
    THEN [ok |-> TRUE, tbl |-> [tbl EXCEPT ![i][j] = tag]]
    ELSE [ok |-> FALSE, tbl |-> tbl]

\* TableType::FindTagInBuckets(i1, i2, tag1, tag2)
FindTagInBuckets(tbl, i1, i2, tag1, tag2) ==
    \/ \E j \in Slots : tbl[i1][j] = tag1
    \/ \E j \in Slots : tbl[i2][j] = tag2

\* AltIndex(index, tag) in each modelled filter, for every index and tag
TagAltIndex ==
    [c \in 1..Len(FilterConfigs) |->
        [i \in 0..(FilterConfigs[c].nb - 1) |->
            [t \in 0..MaxTag |-> AltIndex(i, WFromNat(t), FilterConfigs[c].hp, FilterConfigs[c].nb)]]]

\* an iteration of the for loop of AddImpl that goes on with the tag it
\* carried, whatever it evicted
AddImplIterSameTag(w, c) ==
    LET r == InsertTagToBucket(w.tbl, w.curindex, w.curtag, w.count > 0)
    IN IF r.ok
       THEN [w EXCEPT !.tbl = r.tbl, !.placed = TRUE]
       ELSE [tbl |-> r.tbl, placed |-> FALSE, curindex |-> TagAltIndex[c][w.curindex][w.curtag],
             curtag |-> w.curtag, count |-> w.count + 1]

\* one iteration of the for loop of CuckooFilter::AddImpl; w holds the table,
\* whether the tag was placed (return Ok inside the loop), curindex, curtag
\* and count
AddImplIter(w, c) ==
    LET kickout == w.count > 0
        r == InsertTagToBucket(w.tbl, w.curindex, w.curtag, kickout)
        nexttag == IF kickout THEN r.oldtag ELSE w.curtag
    IN IF r.ok
       THEN [w EXCEPT !.tbl = r.tbl, !.placed = TRUE]
       ELSE [tbl |-> r.tbl, placed |-> FALSE, curindex |-> TagAltIndex[c][w.curindex][nexttag],
             curtag |-> nexttag, count |-> w.count + 1]

\* evaluation depth of one stretch of the for loop
LoopStretch == 25

\* at most k iterations of the for loop of CuckooFilter::AddImpl
RECURSIVE AddImplStretch(_, _, _)
AddImplStretch(w, k, c) ==
    IF k = 0 \/ w.placed \/ w.count >= kMaxCuckooCount
    THEN w
    ELSE AddImplStretch(AddImplIter(w, c), k - 1, c)

\* the for loop of CuckooFilter::AddImpl, run to its end
RECURSIVE AddImplLoop(_, _)
AddImplLoop(w, c) ==
    IF w.placed \/ w.count >= kMaxCuckooCount
    THEN w
    ELSE AddImplLoop(AddImplStretch(w, LoopStretch, c), c)

\* AddImpl returning Ok after the loop without storing the victim
AddImplReturnLost(num, vic, w) ==
    [tbl |-> w.tbl, num |-> IF w.placed THEN num + 1 ELSE num, vic |-> vic, ret |-> Ok,
     count |-> w.count]

\* AddImpl reporting the storing of a victim as a failure
AddImplReturnFull(num, vic, w) ==
    IF w.placed
    THEN [tbl |-> w.tbl, num |-> num + 1, vic |-> vic, ret |-> Ok, count |-> w.count]
    ELSE [tbl |-> w.tbl, num |-> num,
          vic |-> [index |-> w.curindex, tag |-> w.curtag, used |-> TRUE],
          ret |-> NotEnoughSpace, count |-> w.count]

\* what CuckooFilter::AddImpl returns and leaves once its for loop has ended
\* in w: the return inside the loop, or the victim and the return after it
AddImplReturn(num, vic, w) ==
    IF w.placed
    THEN [tbl |-> w.tbl, num |-> num + 1, vic |-> vic, ret |-> Ok, count |-> w.count]
    ELSE [tbl |-> w.tbl, num |-> num,
          vic |-> [index |-> w.curindex, tag |-> w.curtag, used |-> TRUE], ret |-> Ok,
          count |-> w.count]

\* CuckooFilter::AddImpl(i, tag) on the state (tbl, num, vic) of filter c
AddImpl(tbl, num, vic, i, tag, c) ==
    AddImplReturn(num, vic, AddImplLoop([tbl |-> tbl, placed |-> FALSE, curindex |-> i,
                                         curtag |-> tag, count |-> 0], c))

\* the state of a filter built by CuckooFilter(max_num_keys, seeds, hp)
FilterInit ==
    /\ \E c \in 1..Len(FilterConfigs) :
          /\ nb_ = FilterConfigs[c].nb
          /\ hp_ = FilterConfigs[c].hp
          /\ seeds_ = FilterConfigs[c].seeds
          /\ table_ = [b \in 0..(nb_ - 1) |-> [j \in 0..(FilterConfigs[c].assoc - 1) |-> 0]]
    /\ num_items_ = 0
    /\ victim_ = [index |-> 0, tag |-> 0, used |-> FALSE]
    /\ f_ins = [it \in Items |-> 0]
    /\ f_last = [op |-> "none", item |-> 0, ret |-> "none", count |-> -1]
    /\ f_flags = [overflowed |-> FALSE, misdeleted |-> FALSE, copies |-> 0]

FilterConfig == <<nb_, hp_, seeds_>>

\* the capacities given to CuckooFilter(max_num_keys)
MaxDefaultKeys == 16
\* hp_ of a filter whose constructor never assigns it: the member holds
\* whatever its memory held before, any value of size_t (0, 7 left by an
\* earlier filter, 0xcdcdcdcdcdcdcdcd, ...); the one state with this token
\* stands for all of them. The only read of hp_ is in AltIndex, and on such a
\* filter every call that reaches AltIndex throws before its result is used
Indeterminate == "indeterminate"

\* upperpower2: the least power of two that is at least x
upperpower2(x) == CHOOSE p \in {Pow2(k) : k \in 0..x} : p >= x /\ (p = 1 \/ p \div 2 < x)

\* NumBuckets of a filter built by CuckooFilter(max_num_keys); frac > 0.96
\* on the quotient max_num_keys / num_buckets / assoc, compared in integers
DefaultNumBuckets(max_num_keys) ==
    LET assoc == 4
        quot == max_num_keys \div assoc
        num_buckets == upperpower2(IF quot > 1 THEN quot ELSE 1)
    IN IF max_num_keys * 100 > 96 * num_buckets * assoc THEN 2 * num_buckets ELSE num_buckets

\* the state of a filter built by CuckooFilter(max_num_keys): seeds_ is
\* default-constructed (empty) and hp_ is left unassigned
FilterInitDefault ==
    /\ \E max_num_keys \in 1..MaxDefaultKeys :
          /\ nb_ = DefaultNumBuckets(max_num_keys)
          /\ table_ = [b \in 0..(nb_ - 1) |-> [j \in 0..3 |-> 0]]
    /\ hp_ = Indeterminate
    /\ seeds_ = <<>>
    /\ num_items_ = 0
    /\ victim_ = [index |-> 0, tag |-> 0, used |-> FALSE]
    /\ f_ins = [it \in Items |-> 0]
    /\ f_last = [op |-> "none", item |-> 0, ret |-> "none", count |-> -1]
    /\ f_flags = [overflowed |-> FALSE, misdeleted |-> FALSE, copies |-> 0]

\* which of the modelled filters this is
ThisFilter ==
    CHOOSE c \in 1..Len(FilterConfigs) :
        FilterConfigs[c].nb = nb_ /\ FilterConfigs[c].hp = hp_ /\ FilterConfigs[c].seeds = seeds_

\* GenerateIndexTagHash(item) and GenerateTagHashes(item) in each modelled
\* filter, for every item the callers use
ItemHashes ==
    [c \in 1..Len(FilterConfigs) |->
        [it \in Items |->
            [one |-> GenerateIndexTagHash(ItemWords[it], FilterConfigs[c].seeds, FilterConfigs[c].nb),
             two |-> GenerateTagHashes(ItemWords[it], FilterConfigs[c].seeds, FilterConfigs[c].hp,
                                       FilterConfigs[c].nb)]]]

\* the number of items the callers have in the filter
RECURSIVE LiveFrom(_)
\* seeds_.at(index) for the primary bucket of the item: at() throws when
\* index >= seeds_.size(); an index is below NumBuckets, so a complete seed
\* table never throws
SeedMissing(item) ==
    /\ Len(seeds_) < nb_
    /\ Len(seeds_) <= IndexHash(ItemWords[item], nb_)

LiveFrom(it) == IF it > Len(ItemWords) THEN 0 ELSE f_ins[it] + LiveFrom(it + 1)
Live == LiveFrom(1)
\* what the callers have put into the filter, against their budget MaxLive
Load == Live + CopyLoad * f_flags.copies

\* the state after CuckooFilter::Add(item) has returned what AddImpl left in r
AddReturn(item, r) ==
    /\ table_' = r.tbl
    /\ num_items_' = r.num
    /\ victim_' = r.vic
    /\ f_last' = [op |-> "Add", item |-> item, ret |-> r.ret, count |-> r.count]
    /\ f_ins' = [f_ins EXCEPT ![item] = @ + 1]
    /\ f_flags' = [f_flags EXCEPT !.overflowed = @ \/ r.vic.used]

\* CuckooFilter::Add
Add(item) ==
    /\ victim_.used \/ Load < MaxLive
    /\ IF victim_.used
       THEN /\ f_last' = [op |-> "Add", item |-> item, ret |-> NotEnoughSpace, count |-> -1]
            /\ UNCHANGED <<table_, num_items_, victim_, f_ins, f_flags>>
       ELSE IF SeedMissing(item)
       THEN /\ f_last' = [op |-> "Add", item |-> item, ret |-> OutOfRange, count |-> -1]
            /\ UNCHANGED <<table_, num_items_, victim_, f_ins, f_flags>>
       ELSE AddReturn(item, AddImpl(table_, num_items_, victim_,
                                    ItemHashes[ThisFilter][item].one.index,
                                    ItemHashes[ThisFilter][item].one.tag, ThisFilter))
    /\ UNCHANGED <<probe, tableVars, FilterConfig>>

\* the status CuckooFilter::Contain(item) returns in the current state
\* CuckooFilter::CopyInsert(fp, index, slot); the callers pass a fingerprint
\* (a tag, 1 .. MaxTag) and the position of a slot of the table
CopyInsertResult(fp, index, slot) ==
    LET r == CopyTagToBucket(table_, index, slot, fp)
    IN IF r.ok
       THEN [tbl |-> r.tbl, num |-> num_items_ + 1, ret |-> Ok]
       ELSE [tbl |-> table_, num |-> num_items_, ret |-> NotSupported]

CopyInsertReturn(r) ==
    /\ table_' = r.tbl
    /\ num_items_' = r.num
    /\ f_last' = [op |-> "CopyInsert", item |-> 0, ret |-> r.ret, count |-> -1]
    /\ f_flags' = [f_flags EXCEPT !.copies = @ + 1]

CopyInsert(fp, index, slot) ==
    /\ f_flags.copies < MaxCopies
    /\ Load + CopyLoad <= MaxLive
    /\ CopyInsertReturn(CopyInsertResult(fp, index, slot))
    /\ UNCHANGED <<probe, tableVars, FilterConfig, victim_, f_ins>>

ContainStatus(item) ==
    LET g == ItemHashes[ThisFilter][item].two
        found == FALSE
    IN IF SeedMissing(item) THEN OutOfRange
       ELSE IF found \/ FindTagInBuckets(table_, g.i1, g.i2, g.tag1, g.tag2) THEN Ok
       ELSE NotFound

\* CuckooFilter::Contain
Contain(item) ==
    /\ f_last' = [op |-> "Contain", item |-> item, ret |-> ContainStatus(item), count |-> -1]
    /\ UNCHANGED <<probe, tableVars, FilterConfig, table_, num_items_, victim_, f_ins, f_flags>>

\* TryEliminateVictim leaving the victim held
TryEliminateVictimKeep(tbl, num) ==
    [tbl |-> tbl, num |-> num, vic |-> victim_, ret |-> Ok, count |-> -1]

\* TryEliminateVictim giving the victim up without inserting it again
TryEliminateVictimDrop(tbl, num) ==
    [tbl |-> tbl, num |-> num, vic |-> [victim_ EXCEPT !.used = FALSE], ret |-> Ok, count |-> -1]

\* CuckooFilter::Delete from the label TryEliminateVictim on, with the
\* table and item count left by the removal
TryEliminateVictim(tbl, num) ==
    IF victim_.used
    THEN AddImpl(tbl, num, [victim_ EXCEPT !.used = FALSE], victim_.index, victim_.tag,
                 ThisFilter)
    ELSE [tbl |-> tbl, num |-> num, vic |-> victim_, ret |-> Ok, count |-> -1]

\* Delete giving the victim up when it finds nothing to remove
DeleteResultVictimCleared(item) ==
    LET g == ItemHashes[ThisFilter][item].one
        i2 == TagAltIndex[ThisFilter][g.index][g.tag]
        d1 == DeleteTagFromBucket(table_, g.index, g.tag)
        d2 == DeleteTagFromBucket(table_, i2, g.tag)
    IN IF d1.ok THEN TryEliminateVictim(d1.tbl, num_items_ - 1)
       ELSE IF d2.ok THEN TryEliminateVictim(d2.tbl, num_items_ - 1)
       ELSE [tbl |-> table_, num |-> num_items_, vic |-> [victim_ EXCEPT !.used = FALSE],
             ret |-> IF victim_.used /\ g.tag = victim_.tag
                        /\ (g.index = victim_.index \/ i2 = victim_.index)
                     THEN Ok ELSE NotFound,
             count |-> -1]

\* the effect of CuckooFilter::Delete(item) on (table_, num_items_, victim_)
DeleteResult(item) ==
    LET g == ItemHashes[ThisFilter][item].one
        i1 == g.index
        tag == g.tag
        i2 == TagAltIndex[ThisFilter][i1][tag]
        d1 == DeleteTagFromBucket(table_, i1, tag)
        d2 == DeleteTagFromBucket(table_, i2, tag)
    IN IF SeedMissing(item)
       THEN [tbl |-> table_, num |-> num_items_, vic |-> victim_, ret |-> OutOfRange,
             count |-> -1]
       ELSE IF d1.ok THEN TryEliminateVictim(d1.tbl, num_items_ - 1)
       ELSE IF d2.ok THEN TryEliminateVictim(d2.tbl, num_items_ - 1)
       ELSE IF victim_.used /\ tag = victim_.tag /\ (i1 = victim_.index \/ i2 = victim_.index)
            THEN [tbl |-> table_, num |-> num_items_, vic |-> [victim_ EXCEPT !.used = FALSE],
                  ret |-> Ok, count |-> -1]
            ELSE [tbl |-> table_, num |-> num_items_, vic |-> victim_, ret |-> NotFound,
                  count |-> -1]

\* the state after CuckooFilter::Delete(item) has returned with the result r
DeleteReturn(item, r) ==
    /\ table_' = r.tbl
    /\ num_items_' = r.num
    /\ victim_' = r.vic
    /\ f_last' = [op |-> "Delete", item |-> item, ret |-> r.ret, count |-> r.count]
    /\ f_ins' = IF r.ret = Ok /\ f_ins[item] > 0 THEN [f_ins EXCEPT ![item] = @ - 1] ELSE f_ins
    /\ f_flags' = [f_flags EXCEPT !.overflowed = @ \/ r.vic.used,
                                  !.misdeleted = @ \/ (r.ret = Ok /\ f_ins[item] = 0)]

\* CuckooFilter::Delete
Delete(item) ==
    /\ DeleteReturn(item, DeleteResult(item))
    /\ UNCHANGED <<probe, tableVars, FilterConfig>>

----------------------------------------------------------------------------
(* Cuckoo hash table: cuckoo_hashtable<uint64_t, Hash, ..., SLOT_PER_BUCKET> *)


\* The maximum number of items in a cuckoo BFS path
MAX_BFS_PATH_LEN == 5

\* the keys the callers of the small tables use: 0 .. MaxKey
MaxKey == 5

\* the keys the callers of the table of 4 buckets with 2 slots use: keys that
\* alt_index sends to the next bucket (0 .. 3), across (4, 6) and back to the
\* same bucket (12, 13) when it is given the raw key
WideKeys == {0, 1, 2, 3, 4, 6, 12, 13}

Keys == (0..MaxKey) \cup WideKeys

\* hash powers of the modelled tables (reserve_calc of the constructor argument)
TableHps == {1, 2}

\* the modelled instances: the template parameter SLOT_PER_BUCKET, the
\* hashpower that the constructor derives from its argument n, the Hash
\* template arguments it is built with and the keys its callers use
TableConfigs ==
    << [slots |-> 2, hp |-> 1, hashes |-> {1, 2}, keys |-> 0..MaxKey],
       [slots |-> 1, hp |-> 2, hashes |-> {1, 2}, keys |-> 0..MaxKey],
       [slots |-> 2, hp |-> 2, hashes |-> {3}, keys |-> WideKeys] >>

\* the content of key storage that was never written, when it is not zero
Poison == -1

\* the modelled Hash template arguments: 1 is std::hash<uint64_t> (the
\* identity), 2 is k -> 5 * k + 3, 3 is k -> 4 * k
HashFns == {1, 2, 3}

TSlots == 0..(slot_per_bucket - 1)

\* b_queue::MAX_CUCKOO_COUNT
MAX_CUCKOO_COUNT ==
    2 * (IF slot_per_bucket = 1
         THEN MAX_BFS_PATH_LEN
         ELSE (slot_per_bucket ^ MAX_BFS_PATH_LEN - 1) \div (slot_per_bucket - 1))

\* Hash::operator()(key)
HashOf(h, key) ==
    IF h = 1 THEN WFromNat(key)
    ELSE IF h = 2 THEN WFromNat(5 * key + 3)
    ELSE WFromNat(4 * key)

\* cuckoo_hashtable::hashed_key, for every modelled hash function and key
hashed_key == [h \in HashFns |-> [k \in Keys |-> HashOf(h, k)]]

\* cuckoo_hashtable::compute_buckets
compute_buckets(hp, hv) ==
    LET i1 == index_hash(hp, hv)
        i2 == alt_index(hp, hv, i1)
    IN [i1 |-> i1, i2 |-> i2]

\* compute_buckets(hashed_key(key)) for every modelled table and key
KeyBuckets ==
    [hp \in TableHps |-> [h \in HashFns |-> [k \in Keys |-> compute_buckets(hp, hashed_key[h][k])]]]

\* the alternate bucket computed from the key itself, not from hashed_key(key)
AltOfRawKey ==
    [hp \in TableHps |-> [h \in HashFns |-> [k \in Keys |->
        [i \in 0..(hashsize(hp) - 1) |-> alt_index(hp, WFromNat(k), i)]]]]

\* alt_index(hp, hashed_key(key), index) for every modelled table, key and index
AltOfHashed ==
    [hp \in TableHps |-> [h \in HashFns |-> [k \in Keys |->
        [i \in 0..(hashsize(hp) - 1) |-> alt_index(hp, hashed_key[h][k], i)]]]]

\* alt_index(hp, key, index), the key itself taken as the hash value
AltOfKey ==
    [hp \in TableHps |-> [k \in Keys |->
        [i \in 0..(hashsize(hp) - 1) |-> alt_index(hp, WFromNat(k), i)]]]

\* bucket_container::setK
setK(tbl, ind, slot, key) == [tbl EXCEPT ![ind][slot] = [occupied |-> TRUE, key |-> key]]

\* eraseK leaving the slot occupied
eraseK_kept(tbl, ind, slot) == tbl

\* bucket_container::eraseK: the slot is marked free, its storage is not cleared
eraseK(tbl, ind, slot) == [tbl EXCEPT ![ind][slot].occupied = FALSE]

\* cuckoo_hashtable::try_read_from_bucket
RECURSIVE try_read_from_bucket(_, _, _)
try_read_from_bucket(b, key, i) ==
    IF i >= slot_per_bucket THEN -1
    ELSE IF b[i].key = key THEN i
    ELSE try_read_from_bucket(b, key, i + 1)

\* cuckoo_hashtable::cuckoo_find
cuckoo_find(tbl, key, i1, i2) ==
    LET slot1 == try_read_from_bucket(tbl[i1], key, 0)
        slot2 == try_read_from_bucket(tbl[i2], key, 0)
    IN IF slot1 # -1 THEN [index |-> i1, slot |-> slot1, status |-> "ok"]
       ELSE IF slot2 # -1 THEN [index |-> i1, slot |-> slot2, status |-> "ok"]
       ELSE [index |-> 0, slot |-> 0, status |-> "failure_key_not_found"]

\* try_find_insert_bucket reporting no empty slot
RECURSIVE try_find_no_slot(_, _, _, _)
try_find_no_slot(b, key, i, slot) ==
    IF i >= slot_per_bucket THEN [ret |-> TRUE, slot |-> -1]
    ELSE IF b[i].occupied /\ b[i].key = key
         THEN [ret |-> FALSE, slot |-> i]
         ELSE try_find_no_slot(b, key, i + 1, slot)

\* try_find_insert_bucket without the comparison of the occupied slots' keys
RECURSIVE try_find_empty_slot(_, _, _, _)
try_find_empty_slot(b, key, i, slot) ==
    IF i >= slot_per_bucket THEN [ret |-> TRUE, slot |-> slot]
    ELSE IF b[i].occupied
         THEN try_find_empty_slot(b, key, i + 1, slot)
         ELSE try_find_empty_slot(b, key, i + 1, i)

\* cuckoo_hashtable::try_find_insert_bucket from slot i on; slot is the value
\* of the out parameter so far
RECURSIVE try_find_insert_bucket(_, _, _, _)
try_find_insert_bucket(b, key, i, slot) ==
    IF i >= slot_per_bucket THEN [ret |-> TRUE, slot |-> slot]
    ELSE IF b[i].occupied
         THEN IF b[i].key = key
              THEN [ret |-> FALSE, slot |-> i]
              ELSE try_find_insert_bucket(b, key, i + 1, slot)
         ELSE try_find_insert_bucket(b, key, i + 1, i)

\* the for loop of slot_search without the test of x.depth: a b_slot is
\* enqueued for every occupied slot
RECURSIVE slot_search_scan_unbounded(_, _, _, _, _)
slot_search_scan_unbounded(tbl, hp, x, i, q) ==
    IF i >= slot_per_bucket
    THEN [found |-> FALSE, x |-> x, slots |-> q, asserted |-> FALSE]
    ELSE LET slot == ((x.pathcode % slot_per_bucket) + i) % slot_per_bucket
             code == (x.pathcode * slot_per_bucket + slot) % 65536
         IN IF ~tbl[x.bucket][slot].occupied
            THEN [found |-> TRUE, x |-> [x EXCEPT !.pathcode = code], slots |-> q,
                  asserted |-> FALSE]
            ELSE IF Len(q) >= MAX_CUCKOO_COUNT
                 THEN [found |-> FALSE, x |-> x, slots |-> q, asserted |-> TRUE]
                 ELSE slot_search_scan_unbounded(tbl, hp, x, i + 1,
                          Append(q, [bucket |-> AltOfKey[hp][tbl[x.bucket][slot].key][x.bucket],
                                     pathcode |-> code, depth |-> x.depth + 1]))

\* one step of the for loop of slot_search over the slots of the dequeued
\* b_slot x, from step i on; q holds every b_slot enqueued so far
RECURSIVE slot_search_scan(_, _, _, _, _)
slot_search_scan(tbl, hp, x, i, q) ==
    IF i >= slot_per_bucket
    THEN [found |-> FALSE, x |-> x, slots |-> q, asserted |-> FALSE]
    ELSE LET slot == ((x.pathcode % slot_per_bucket) + i) % slot_per_bucket
             code == (x.pathcode * slot_per_bucket + slot) % 65536
         IN IF ~tbl[x.bucket][slot].occupied
            THEN [found |-> TRUE, x |-> [x EXCEPT !.pathcode = code], slots |-> q,
                  asserted |-> FALSE]
            ELSE IF x.depth < MAX_BFS_PATH_LEN - 1
                 THEN IF Len(q) >= MAX_CUCKOO_COUNT
                      THEN [found |-> FALSE, x |-> x, slots |-> q, asserted |-> TRUE]
                      ELSE slot_search_scan(tbl, hp, x, i + 1,
                               Append(q, [bucket |-> AltOfKey[hp][tbl[x.bucket][slot].key][x.bucket],
                                          pathcode |-> code, depth |-> x.depth + 1]))
                 ELSE slot_search_scan(tbl, hp, x, i + 1, q)

\* the end of one iteration of the while loop of slot_search, r being what
\* the for loop over the slots of the dequeued b_slot has done
slot_search_scanned(w, r) ==
    IF r.found THEN [w EXCEPT !.done = TRUE, !.x = r.x, !.first = w.first + 1]
    ELSE IF r.asserted THEN [w EXCEPT !.done = TRUE, !.asserted = TRUE, !.first = w.first + 1]
    ELSE [w EXCEPT !.slots = r.slots, !.first = w.first + 1]

\* one iteration of the while loop of slot_search; w holds the queue (slots,
\* first), whether the search has returned, the b_slot it returned and
\* whether an assertion failed
slot_search_iter(tbl, hp, w) ==
    IF w.first = Len(w.slots)
    THEN [w EXCEPT !.done = TRUE, !.x = [bucket |-> 0, pathcode |-> 0, depth |-> -1]]
    ELSE slot_search_scanned(w, slot_search_scan(tbl, hp, w.slots[w.first + 1], 0, w.slots))

\* evaluation depth of one stretch of the while loop of slot_search
SearchStretch == 20

\* at most k iterations of the while loop of slot_search
RECURSIVE slot_search_stretch(_, _, _, _)
slot_search_stretch(tbl, hp, w, k) ==
    IF k = 0 \/ w.done THEN w
    ELSE CHOOSE r \in {slot_search_stretch(tbl, hp, v, k - 1) : v \in {slot_search_iter(tbl, hp, w)}} : TRUE

\* the while loop of slot_search, run to its end
RECURSIVE slot_search_loop(_, _, _)
slot_search_loop(tbl, hp, w) ==
    IF w.done THEN w
    ELSE CHOOSE r \in {slot_search_loop(tbl, hp, v) : v \in {slot_search_stretch(tbl, hp, w, SearchStretch)}} : TRUE

\* cuckoo_hashtable::slot_search
slot_search(tbl, hp, i1, i2) ==
    slot_search_loop(tbl, hp,
        [slots |-> <<[bucket |-> i1, pathcode |-> 0, depth |-> 0],
                     [bucket |-> i2, pathcode |-> 1, depth |-> 0]>>,
         first |-> 0, done |-> FALSE, x |-> [bucket |-> 0, pathcode |-> 0, depth |-> -1],
         asserted |-> FALSE])

\* the slot that the first for loop of cuckoopath_search gives cuckoo_path[i]
PathSlot(x, i) == (x.pathcode \div (slot_per_bucket ^ (x.depth - i))) % slot_per_bucket

\* x.pathcode after the first for loop of cuckoopath_search
PathStart(x) == x.pathcode \div (slot_per_bucket ^ (x.depth + 1))

\* whether bucket is one of the two buckets of hashed_key(key) (the condition
\* asserted in cuckoopath_search and cuckoo_insert)
IsCandidate(hp, h, key, bucket) ==
    \/ bucket = KeyBuckets[hp][h][key].i1
    \/ bucket = KeyBuckets[hp][h][key].i2

\* the second for loop of cuckoopath_search from i on; path holds
\* cuckoo_path[0 .. i-1], and cuckoo_path[i-1] is occupied with its hv set.
\* A path record keeps, for hv, the key that hv was hashed from (hvkey):
\* hv is hashed_key[h][hvkey], and -1 stands for an hv that was not set
RECURSIVE cuckoopath_fill(_, _, _, _, _, _)
cuckoopath_fill(tbl, hp, h, x, i, path) ==
    IF i > x.depth
    THEN [depth |-> x.depth, path |-> path, asserted |-> FALSE]
    ELSE LET prev == path[i]
             bucket == AltOfHashed[hp][h][prev.hvkey][prev.bucket]
             slot == PathSlot(x, i)
         IN IF ~IsCandidate(hp, h, prev.hvkey, prev.bucket)
            THEN [depth |-> -1, path |-> path, asserted |-> TRUE]
            ELSE IF ~tbl[bucket][slot].occupied
                 THEN [depth |-> i, path |-> Append(path, [bucket |-> bucket, slot |-> slot, hvkey |-> -1]),
                       asserted |-> FALSE]
                 ELSE cuckoopath_fill(tbl, hp, h, x, i + 1,
                          Append(path, [bucket |-> bucket, slot |-> slot,
                                        hvkey |-> tbl[bucket][slot].key]))

\* cuckoopath_search after slot_search has returned x
cuckoopath_decode(tbl, hp, h, i1, i2, x) ==
    LET bucket == IF PathStart(x) = 0 THEN i1 ELSE i2
        slot == PathSlot(x, 0)
    IN IF x.depth = -1 THEN [depth |-> -1, path |-> <<>>, asserted |-> FALSE]
       ELSE IF PathStart(x) \notin {0, 1} THEN [depth |-> -1, path |-> <<>>, asserted |-> TRUE]
       ELSE IF ~tbl[bucket][slot].occupied
            THEN [depth |-> 0, path |-> <<[bucket |-> bucket, slot |-> slot, hvkey |-> -1]>>,
                  asserted |-> FALSE]
            ELSE cuckoopath_fill(tbl, hp, h, x, 1,
                     <<[bucket |-> bucket, slot |-> slot, hvkey |-> tbl[bucket][slot].key]>>)

\* cuckoopath_search after slot_search has ended in w
cuckoopath_searched(tbl, hp, h, i1, i2, w) ==
    IF w.asserted THEN [depth |-> -1, path |-> <<>>, asserted |-> TRUE]
    ELSE cuckoopath_decode(tbl, hp, h, i1, i2, w.x)

\* cuckoo_hashtable::cuckoopath_search; path[i + 1] is cuckoo_path[i]
cuckoopath_search(tbl, hp, h, i1, i2) ==
    CHOOSE r \in {cuckoopath_searched(tbl, hp, h, i1, i2, w) : w \in {slot_search(tbl, hp, i1, i2)}} : TRUE

\* the while loop of cuckoopath_move
RECURSIVE cuckoopath_move_loop(_, _, _, _, _)
cuckoopath_move_loop(tbl, h, path, depth, trail) ==
    IF depth = 0
    THEN [ret |-> TRUE, tbl |-> tbl, trail |-> trail, asserted |-> FALSE]
    ELSE LET from == path[depth]
             to == path[depth + 1]
         IN IF \/ tbl[to.bucket][to.slot].occupied
               \/ ~tbl[from.bucket][from.slot].occupied
               \/ hashed_key[h][tbl[from.bucket][from.slot].key] # hashed_key[h][from.hvkey]
            THEN [ret |-> FALSE, tbl |-> tbl, trail |-> trail, asserted |-> FALSE]
            ELSE cuckoopath_move_loop(
                     eraseK(setK(tbl, to.bucket, to.slot, tbl[from.bucket][from.slot].key),
                            from.bucket, from.slot),
                     h, path, depth - 1, Append(trail, <<to.bucket, to.slot>>))

\* cuckoopath_move reporting success without moving a key
cuckoopath_move_unmoved(tbl, h, path, depth, i1, i2, trail) ==
    [ret |-> TRUE, tbl |-> tbl, trail |-> trail, asserted |-> FALSE]

\* cuckoo_hashtable::cuckoopath_move
cuckoopath_move(tbl, h, path, depth, i1, i2, trail) ==
    IF depth = 0
    THEN IF path[1].bucket \notin {i1, i2}
         THEN [ret |-> FALSE, tbl |-> tbl, trail |-> trail, asserted |-> TRUE]
         ELSE [ret |-> ~tbl[path[1].bucket][path[1].slot].occupied, tbl |-> tbl, trail |-> trail,
               asserted |-> FALSE]
    ELSE cuckoopath_move_loop(tbl, h, path, depth, trail)

\* the state of a table built by cuckoo_hashtable(n, hf)
TableInit ==
    /\ \E c \in 1..Len(TableConfigs) :
          /\ slot_per_bucket = TableConfigs[c].slots
          /\ hashpower = TableConfigs[c].hp
          /\ hash_fn_ \in TableConfigs[c].hashes
    /\ \E fill \in {0, Poison} :
          buckets_ = [b \in 0..(hashsize(hashpower) - 1) |->
                         [j \in TSlots |-> [occupied |-> FALSE, key |-> fill]]]
    /\ ht_num_items_ = 0
    /\ t_pc = "idle"
    /\ t_call = [key |-> 0, i1 |-> 0, i2 |-> 0, trail |-> <<>>, iters |-> 0, start |-> <<>>]
    /\ t_ins = {}
    /\ t_last = [op |-> "none", key |-> 0, status |-> "none", index |-> 0, slot |-> 0,
                 trail |-> <<>>, value |-> 0]

TableConfig == <<slot_per_bucket, hashpower, hash_fn_>>

\* the end of paired_insert once cuckoo_insert_loop has returned pos: the key
\* is added when the status is ok, the position is pushed on the trail
paired_insert_return(key, pos, tbl, trail) ==
    /\ buckets_' = IF pos.status = "ok" THEN setK(tbl, pos.index, pos.slot, key) ELSE tbl
    /\ ht_num_items_' = IF pos.status = "ok" THEN ht_num_items_ + 1 ELSE ht_num_items_
    /\ t_ins' = IF pos.status = "ok" THEN t_ins \cup {key} ELSE t_ins
    /\ t_last' = [op |-> "paired_insert", key |-> key, status |-> pos.status, index |-> pos.index,
                  slot |-> pos.slot, trail |-> Append(trail, <<pos.index, pos.slot>>), value |-> 0]
    /\ t_pc' = "idle"
    /\ t_call' = [key |-> 0, i1 |-> 0, i2 |-> 0, trail |-> <<>>, iters |-> 0, start |-> <<>>]

\* paired_insert ended by the exception of cuckoo_insert_loop (table full) or
\* by a failed assertion
paired_insert_fail(key, status, tbl) ==
    /\ buckets_' = tbl
    /\ t_last' = [op |-> "paired_insert", key |-> key, status |-> status, index |-> 0, slot |-> 0,
                  trail |-> <<>>, value |-> 0]
    /\ t_pc' = IF status = "assert" THEN "aborted" ELSE "idle"
    /\ t_call' = [key |-> 0, i1 |-> 0, i2 |-> 0, trail |-> <<>>, iters |-> 0, start |-> <<>>]
    /\ UNCHANGED <<ht_num_items_, t_ins>>

\* cuckoo_hashtable::paired_insert up to the return of cuckoo_insert or the
\* call of run_cuckoo
paired_insert(key) ==
    /\ t_pc = "idle"
    /\ LET b == KeyBuckets[hashpower][hash_fn_][key]
           r1 == try_find_insert_bucket(buckets_[b.i1], key, 0, -1)
           r2 == try_find_insert_bucket(buckets_[b.i2], key, 0, -1)
       IN IF ~r1.ret
          THEN paired_insert_return(key, [index |-> b.i1, slot |-> r1.slot,
                                          status |-> "failure_key_duplicated"], buckets_, <<>>)
          ELSE IF ~r2.ret
          THEN paired_insert_return(key, [index |-> b.i2, slot |-> r2.slot,
                                          status |-> "failure_key_duplicated"], buckets_, <<>>)
          ELSE IF r1.slot # -1
          THEN paired_insert_return(key, [index |-> b.i1, slot |-> r1.slot, status |-> "ok"],
                                    buckets_, <<>>)
          ELSE IF r2.slot # -1
          THEN paired_insert_return(key, [index |-> b.i2, slot |-> r2.slot, status |-> "ok"],
                                    buckets_, <<>>)
          ELSE /\ t_pc' = "run_cuckoo"
               /\ t_call' = [key |-> key, i1 |-> b.i1, i2 |-> b.i2, trail |-> <<>>, iters |-> 0,
                             start |-> buckets_]
               /\ UNCHANGED <<buckets_, ht_num_items_, t_ins, t_last>>
    /\ UNCHANGED <<probe, filterVars, TableConfig>>

\* the failed iterations of the while loop of run_cuckoo are counted up to
\* this number, after which the count starts again at 1
MaxIters == 2

\* an iteration of run_cuckoo after cuckoopath_move has returned m for the
\* path s: on success the loop ends and cuckoo_insert, cuckoo_insert_loop and
\* paired_insert finish
run_cuckoo_moved(key, s, m) ==
    IF m.asserted
    THEN paired_insert_fail(key, "assert", buckets_)
    ELSE IF m.ret
    THEN IF \/ s.path[1].bucket \notin {t_call.i1, t_call.i2}
            \/ m.tbl[s.path[1].bucket][s.path[1].slot].occupied
            \/ ~IsCandidate(hashpower, hash_fn_, key, s.path[1].bucket)
         THEN paired_insert_fail(key, "assert", m.tbl)
         ELSE paired_insert_return(key, [index |-> s.path[1].bucket, slot |-> s.path[1].slot,
                                         status |-> "ok"], m.tbl, m.trail)
    ELSE /\ buckets_' = m.tbl
         /\ t_call' = [t_call EXCEPT !.trail = m.trail,
                                     !.iters = IF @ < MaxIters THEN @ + 1 ELSE 1]
         /\ UNCHANGED <<ht_num_items_, t_pc, t_ins, t_last>>

\* an iteration of run_cuckoo after cuckoopath_search has returned s: with no
\* path the loop ends and cuckoo_insert_loop throws
run_cuckoo_searched(key, s) ==
    IF s.asserted
    THEN paired_insert_fail(key, "assert", buckets_)
    ELSE IF s.depth < 0
    THEN paired_insert_fail(key, "table_full", buckets_)
    ELSE \E m \in {cuckoopath_move(buckets_, hash_fn_, s.path, s.depth,
                                    t_call.i1, t_call.i2, t_call.trail)} :
            run_cuckoo_moved(key, s, m)

\* one iteration of the while loop of run_cuckoo, and on leaving the loop the
\* rest of cuckoo_insert, cuckoo_insert_loop and paired_insert
run_cuckoo ==
    /\ t_pc = "run_cuckoo"
    /\ \E s \in {cuckoopath_search(buckets_, hashpower, hash_fn_, t_call.i1, t_call.i2)} :
          run_cuckoo_searched(t_call.key, s)
    /\ UNCHANGED <<probe, filterVars, TableConfig>>

\* cuckoo_hashtable::find
find(key) ==
    /\ t_pc = "idle"
    /\ LET b == KeyBuckets[hashpower][hash_fn_][key]
           pos == cuckoo_find(buckets_, key, b.i1, b.i2)
       IN t_last' = IF pos.status = "ok"
                    THEN [op |-> "find", key |-> key, status |-> "ok", index |-> pos.index,
                          slot |-> pos.slot, trail |-> <<>>,
                          value |-> buckets_[pos.index][pos.slot].key]
                    ELSE [op |-> "find", key |-> key, status |-> "out_of_range", index |-> 0,
                          slot |-> 0, trail |-> <<>>, value |-> 0]
    /\ UNCHANGED <<probe, filterVars, TableConfig, buckets_, ht_num_items_, t_pc, t_call, t_ins>>

----------------------------------------------------------------------------
(* Specifications                                                          *)

ProbeUnused == probe = [in |-> [kind |-> "none", hp |-> 0, nb |-> 1, x |-> 1, i |-> 0], cur |-> 0, n |-> 0]

FilterUnused ==
    /\ nb_ = 0
    /\ hp_ = 0
    /\ seeds_ = <<>>
    /\ table_ = <<>>
    /\ num_items_ = 0
    /\ victim_ = [index |-> 0, tag |-> 0, used |-> FALSE]
    /\ f_ins = <<>>
    /\ f_last = [op |-> "none", item |-> 0, ret |-> "none", count |-> -1]
    /\ f_flags = [overflowed |-> FALSE, misdeleted |-> FALSE, copies |-> 0]

TableUnused ==
    /\ slot_per_bucket = 1
    /\ hashpower = 0
    /\ hash_fn_ = 1
    /\ buckets_ = <<>>
    /\ ht_num_items_ = 0
    /\ t_pc = "idle"
    /\ t_call = [key |-> 0, i1 |-> 0, i2 |-> 0, trail |-> <<>>, iters |-> 0, start |-> <<>>]
    /\ t_ins = {}
    /\ t_last = [op |-> "none", key |-> 0, status |-> "none", index |-> 0, slot |-> 0,
                 trail |-> <<>>, value |-> 0]

\* the index functions applied to drawn inputs
InitIndex == ProbeInit /\ FilterUnused /\ TableUnused
NextIndex ==
    \/ ProbeTableAlt
    \/ ProbeFilterAlt
SpecIndex == InitIndex /\ [][NextIndex]_vars

\* a filter and its callers
InitFilter == FilterInit /\ ProbeUnused /\ TableUnused
NextFilter ==
    \/ \E item \in Items : Add(item)
    \/ \E item \in Items : Contain(item)
    \/ \E item \in Items : Delete(item)
    \/ \E fp \in 1..MaxTag, index \in DOMAIN table_, slot \in Slots : CopyInsert(fp, index, slot)
SpecFilter == InitFilter /\ [][NextFilter]_vars

\* a filter built from a capacity alone, and its callers
InitFilterDefault == FilterInitDefault /\ ProbeUnused /\ TableUnused
SpecFilterDefault == InitFilterDefault /\ [][NextFilter]_vars

\* the keys that the callers of this table use
CallerKeys ==
    LET c == CHOOSE n \in 1..Len(TableConfigs) :
                 /\ TableConfigs[n].slots = slot_per_bucket
                 /\ TableConfigs[n].hp = hashpower
    IN TableConfigs[c].keys

\* a table and its callers
InitTable == TableInit /\ ProbeUnused /\ FilterUnused
NextTable ==
    \/ \E key \in CallerKeys : paired_insert(key)
    \/ run_cuckoo
    \/ \E key \in CallerKeys : find(key)
SpecTable == InitTable /\ [][NextTable]_vars

\* a table whose callers let a call that has begun run on: the code is
\* single-threaded and synchronous, so the while loop of run_cuckoo keeps
\* taking its next iteration until it leaves the loop
SpecTableLive == InitTable /\ [][NextTable]_vars /\ WF_vars(run_cuckoo)

----------------------------------------------------------------------------
(* Properties                                                              *)

\* the items whose tags the filter holds on the callers' account
Inserted(it) == f_ins[it] > 0

\* C1: Filter, no false negatives. As long as no victim was ever stored
\* (capacity was not exceeded) and no Delete of an absent item returned Ok,
\* Contain(item) returns Ok for every item whose Adds returned Ok more often
\* than its Deletes did, also when its tag sits in its alternate bucket.
C1_NoFalseNegatives ==
    (/\ f_last.op = "Contain"
     /\ Inserted(f_last.item)
     /\ ~f_flags.overflowed
     /\ ~f_flags.misdeleted)
        => f_last.ret = Ok

\* a Contain of an inserted item whose tag is not in its primary bucket
C1_Reached ==
    /\ f_last.op = "Contain"
    /\ Inserted(f_last.item)
    /\ ~f_flags.overflowed
    /\ ~f_flags.misdeleted
    /\ \A j \in Slots : table_[ItemHashes[ThisFilter][f_last.item].one.index][j]
                            # ItemHashes[ThisFilter][f_last.item].one.tag

\* C2: Table exactness. find(key) of a key whose insertion succeeded returns
\* a value equal to that key, in its primary or in its alternate bucket.
C2_FindReturnsKey ==
    (t_last.op = "find" /\ t_last.key \in t_ins)
        => (t_last.status = "ok" /\ t_last.value = t_last.key)

\* a find of an inserted key that is stored in its alternate bucket only
C2_Reached ==
    /\ t_last.op = "find"
    /\ t_last.key \in t_ins
    /\ \A j \in TSlots :
          LET e == buckets_[KeyBuckets[hashpower][hash_fn_][t_last.key].i1][j]
          IN ~(e.occupied /\ e.key = t_last.key)

\* C3: Table. find(key) of a key that was never inserted fails with
\* not-found (std::out_of_range) in every reachable state.
C3_FindMissFails ==
    (t_last.op = "find" /\ t_last.key \notin t_ins) => t_last.status = "out_of_range"

\* a find of a key that was never inserted, one of whose buckets has a free slot
C3_Reached ==
    /\ t_last.op = "find"
    /\ t_last.key \notin t_ins
    /\ \E j \in TSlots : ~buckets_[KeyBuckets[hashpower][hash_fn_][t_last.key].i1][j].occupied

\* the occupied slots that hold key
SlotsOf(key) ==
    {p \in (DOMAIN buckets_) \X TSlots :
        buckets_[p[1]][p[2]].occupied /\ buckets_[p[1]][p[2]].key = key}

C5_AddStatus ==
    [][f_last'.op = "Add"
          => f_last'.ret = (IF victim_.used THEN NotEnoughSpace ELSE Ok)]_vars

\* an Add has found the victim held and returned NotEnoughSpace
C5_Reached ==
    /\ f_last.op = "Add"
    /\ f_last.ret = NotEnoughSpace
    /\ victim_.used

\* how often tag t is stored: in the slots of tbl and as the victim vic
TagCount(tbl, vic, t) ==
    Cardinality({p \in (DOMAIN tbl) \X (DOMAIN tbl[0]) : tbl[p[1]][p[2]] = t})
        + (IF vic.used /\ vic.tag = t THEN 1 ELSE 0)

\* C6: Filter. A Delete(item) that returns Ok takes exactly one instance of
\* the item's tag out of the stored tags (slots and victim) and leaves the
\* number of instances of every other tag as it was.
C6_DeleteRemovesOne ==
    [][(f_last'.op = "Delete" /\ f_last'.ret = Ok)
          => \A t \in 1..MaxTag :
                TagCount(table_', victim_', t)
                    = TagCount(table_, victim_, t)
                        - (IF t = ItemHashes[ThisFilter][f_last'.item].one.tag THEN 1 ELSE 0)]_vars

\* a Delete has returned Ok after inserting the held victim again with at
\* least one eviction
C6_Reached ==
    /\ f_last.op = "Delete"
    /\ f_last.ret = Ok
    /\ f_last.count >= 2

\* C7: Table. alt_index(hp, hv, alt_index(hp, hv, i)) = i for every hash
\* power, hash value and bucket index i < 2^hp, over 64-bit arithmetic.
C7_TableAltInvolution ==
    (probe.in.kind = "table" /\ probe.n = 2) => probe.cur = probe.in.i

\* alt_index applied twice, the alternate bucket being another bucket
C7_Reached ==
    /\ probe.in.kind = "table"
    /\ probe.n = 2
    /\ alt_index(probe.in.hp, ProbeWords[probe.in.x], probe.in.i) # probe.in.i

\* C8: Filter. AltIndex(AltIndex(i, x), x) = i for every bucket count n,
\* every bucket index i < n and every x.
C8_FilterAltInvolution ==
    (probe.in.kind = "filter" /\ probe.n = 2) => probe.cur = probe.in.i

\* AltIndex applied twice with a bucket count that is not a power of two
C8_Reached ==
    /\ probe.in.kind = "filter"
    /\ probe.n = 2
    /\ probe.in.nb \notin {1, 2, 4, 8}

\* C9: Table. Every occupied slot of bucket b holds a key k with
\* b = index_hash(hp, hash(k)) or b = alt_index(hp, hash(k), index_hash(hp, hash(k))).
C9_TableCandidates ==
    \A b \in DOMAIN buckets_ : \A j \in TSlots :
        buckets_[b][j].occupied => IsCandidate(hashpower, hash_fn_, buckets_[b][j].key, b)

\* a paired_insert has returned ok after a cuckoo path move
C9_Reached ==
    /\ t_last.op = "paired_insert"
    /\ t_last.status = "ok"
    /\ Len(t_last.trail) > 1

\* tag t in bucket b is the tag of an inserted item with primary index b or
\* with AltIndex(primary, t) = b
FilterCandidate(b, t) ==
    \E it \in Items :
        /\ Inserted(it)
        /\ ItemHashes[ThisFilter][it].one.tag = t
        /\ \/ ItemHashes[ThisFilter][it].one.index = b
           \/ TagAltIndex[ThisFilter][ItemHashes[ThisFilter][it].one.index][t] = b

\* C10: Filter. Every tag stored in a slot of bucket b belongs to an inserted
\* item whose primary index is b or whose alternate index is b; only the
\* victim is outside its two candidate buckets.
C10_FilterCandidates ==
    \A b \in DOMAIN table_ : \A j \in Slots :
        table_[b][j] # 0 => FilterCandidate(b, table_[b][j])

\* an Add has evicted a tag and found a free slot for the last tag evicted
C10_Reached ==
    /\ f_last.op = "Add"
    /\ f_last.ret = Ok
    /\ f_last.count >= 2
    /\ ~victim_.used

\* the number of slots of tbl that hold a tag
OccupiedSlots(tbl) ==
    Cardinality({p \in (DOMAIN tbl) \X (DOMAIN tbl[0]) : tbl[p[1]][p[2]] # 0})

\* C11: Filter accounting. In every state reachable by Add and Delete, Size()
\* (num_items_) equals the number of occupied slots of all buckets, plus one
\* if a victim is held.
C11_FilterAccounting ==
    num_items_ = OccupiedSlots(table_) + (IF victim_.used THEN 1 ELSE 0)

\* an Add has run its eviction loop to the end and stored a victim
C11_Reached ==
    /\ f_last.op = "Add"
    /\ f_last.ret = Ok
    /\ f_last.count = kMaxCuckooCount
    /\ victim_.used

\* Size() counts the occupied slots only, whether a victim is held or not
C11_SizeIsOccupiedSlots == num_items_ = OccupiedSlots(table_)

\* the number of occupied slots of tbl
OccupiedCount(tbl) ==
    Cardinality({p \in (DOMAIN tbl) \X TSlots : tbl[p[1]][p[2]].occupied})

\* C12: Table accounting. In every reachable state size() (num_items_) equals
\* the number of occupied slots of all buckets; a paired_insert that returns ok
\* raises size() by exactly one; a paired_insert that finds a duplicate or the
\* table full leaves size() unchanged; the key moves of a cuckoo path leave
\* size() and the number of occupied slots unchanged.
C12_TableAccounting ==
    /\ [](ht_num_items_ = OccupiedCount(buckets_))
    /\ [][(t_last' # t_last /\ t_last'.op = "paired_insert" /\ t_last'.status = "ok")
              => ht_num_items_' = ht_num_items_ + 1]_vars
    /\ [][(/\ t_last'.op = "paired_insert"
           /\ t_last'.status \in {"failure_key_duplicated", "table_full"}
           /\ t_pc' = "idle")
              => ht_num_items_' = ht_num_items_]_vars
    /\ [][(t_pc = "run_cuckoo" /\ t_pc' = "run_cuckoo")
              => (/\ ht_num_items_' = ht_num_items_
                  /\ OccupiedCount(buckets_') = OccupiedCount(buckets_))]_vars
    /\ [][(t_pc = "run_cuckoo" /\ t_pc' = "idle" /\ t_last'.status = "ok")
              => OccupiedCount(buckets_') = OccupiedCount(buckets_) + 1]_vars

\* a paired_insert has moved keys along a cuckoo path and returned ok in a
\* table that now holds at least three keys
C12_Reached ==
    /\ t_last.op = "paired_insert"
    /\ t_last.status = "ok"
    /\ Len(t_last.trail) > 1
    /\ ht_num_items_ >= 3
    /\ ht_num_items_ = OccupiedCount(buckets_)

\* C13: Table full is a clean failure. When the bounded search of run_cuckoo
\* finds no empty slot, paired_insert ends at once signalling table full
\* (no further search, no retry of cuckoo_insert), with every bucket slot,
\* size() and the set of inserted keys as they were when the call began; table
\* full is signalled by the first search of a call only, and the call has
\* changed nothing before that search.
C13_TableFullClean ==
    /\ [][(/\ t_pc = "run_cuckoo"
           /\ slot_search(buckets_, hashpower, t_call.i1, t_call.i2).x.depth = -1)
              => (/\ t_pc' = "idle"
                  /\ t_last'.op = "paired_insert"
                  /\ t_last'.key = t_call.key
                  /\ t_last'.status = "table_full"
                  /\ t_call.iters = 0
                  /\ t_call.trail = <<>>
                  /\ buckets_' = t_call.start
                  /\ ht_num_items_' = ht_num_items_
                  /\ t_ins' = t_ins)]_vars
    /\ [][(t_pc = "run_cuckoo" /\ t_last'.status = "table_full" /\ t_pc' = "idle")
              => (/\ slot_search(buckets_, hashpower, t_call.i1, t_call.i2).x.depth = -1
                  /\ buckets_' = t_call.start
                  /\ ht_num_items_' = ht_num_items_)]_vars
    /\ [][(t_pc = "idle" /\ t_pc' = "run_cuckoo")
              => (/\ buckets_' = buckets_
                  /\ t_call'.start = buckets_
                  /\ ht_num_items_' = ht_num_items_
                  /\ t_ins' = t_ins)]_vars

\* a call of paired_insert that has moved keys along a path it then gave up
\* searches again and finds no empty slot: it is about to signal table full
\* with buckets that are no longer those of its start
C13_Reached ==
    /\ t_pc = "run_cuckoo"
    /\ t_call.trail # <<>>
    /\ buckets_ # t_call.start
    /\ slot_search(buckets_, hashpower, t_call.i1, t_call.i2).x.depth = -1

\* the bucket from which Delete(item) removes a tag in the current state:
\* the item's primary bucket, else the tag's alternate bucket, else -1
DeleteBucket(item) ==
    LET g == ItemHashes[ThisFilter][item].one
        i2 == TagAltIndex[ThisFilter][g.index][g.tag]
    IN IF \E j \in Slots : table_[g.index][j] = g.tag THEN g.index
       ELSE IF \E j \in Slots : table_[i2][j] = g.tag THEN i2
       ELSE -1

\* C14: Filter victim reclamation. If a victim is held and Delete(item)
\* removes a tag from the bucket whose index is the victim's index, then when
\* that Delete returns (Ok) the victim's tag occupies a slot of that bucket and
\* no victim is held; and as long as no victim is held, Contain and Delete
\* store none and an Add is not rejected with NotEnoughSpace, so the next Add
\* after that Delete is not rejected.
C14_VictimReclaimed ==
    /\ [][(/\ f_last'.op = "Delete"
           /\ victim_.used
           /\ DeleteBucket(f_last'.item) = victim_.index)
              => (/\ f_last'.ret = Ok
                  /\ \E j \in Slots : table_'[victim_.index][j] = victim_.tag
                  /\ ~victim_'.used)]_vars
    /\ [][(f_last'.op \in {"Contain", "Delete"} /\ ~victim_.used) => ~victim_'.used]_vars
    /\ [][(f_last'.op = "Add" /\ ~victim_.used) => f_last'.ret # NotEnoughSpace]_vars

\* a Delete has put the held victim back into its bucket without an eviction
C14_Reached ==
    /\ f_last.op = "Delete"
    /\ f_last.ret = Ok
    /\ f_last.count = 0
    /\ f_flags.overflowed
    /\ ~victim_.used
    /\ \E j \in Slots : table_[victim_.index][j] = victim_.tag

\* C15: Table insertion terminates. Every paired_insert call that has entered
\* run_cuckoo ends: it returns a position (ok), reports a duplicate, or
\* signals table full; the search-then-move loop of run_cuckoo does not repeat
\* forever.
C15_InsertTerminates ==
    (t_pc = "run_cuckoo")
        ~> (/\ t_pc = "idle"
            /\ t_last.op = "paired_insert"
            /\ t_last.status \in {"ok", "failure_key_duplicated", "table_full"})

\* the loop of run_cuckoo has searched and failed to move more than once on
\* the same table
C15_Reached ==
    /\ t_pc = "run_cuckoo"
    /\ t_call.iters = MaxIters
    /\ t_call.trail = <<>>

\* with std::hash (the identity) the loop of run_cuckoo never repeats
C15_IdentityHashNoRepeat == (hash_fn_ = 1) => (t_call.iters = 0)

\* what the caller of the last operation has received: the value returned
\* (paired_insert returns the stack of positions cuckoo_trail, of which
\* pos.status is no part; find returns the stored key) or the exception
\* thrown (by cuckoo_insert_loop when the table is full, by find on a miss)
Received ==
    IF t_last.op = "paired_insert"
    THEN IF t_last.status \in {"ok", "failure_key_duplicated"}
         THEN [how |-> "returned", what |-> t_last.trail]
         ELSE IF t_last.status = "table_full"
              THEN [how |-> "thrown", what |-> "std::out_of_range"]
              ELSE [how |-> "aborted", what |-> "assert"]
    ELSE IF t_last.op = "find"
    THEN IF t_last.status = "ok"
         THEN [how |-> "returned", what |-> t_last.value]
         ELSE [how |-> "thrown", what |-> "std::out_of_range"]
    ELSE [how |-> "none", what |-> "none"]

\* no expected condition of the table is raised as an exception
C16_NoException ==
    (t_last.status \in {"failure_key_duplicated", "table_full", "out_of_range"})
        => Received.how = "returned"

\* what a paired_insert of a key already stored returns differs from what the
\* fresh insertion of that key returned just before it
C16_DuplicateDistinct ==
    [][(/\ t_last.op = "paired_insert"
        /\ t_last.status = "ok"
        /\ t_last'.op = "paired_insert"
        /\ t_last'.key = t_last.key
        /\ t_last'.status = "failure_key_duplicated")
           => Received' # Received]_vars

\* C16: Table error propagation. A duplicate key, a full table and a key
\* that is not found are each reported to the caller by a returned value, none
\* by a raised exception; and the caller can tell a duplicate from a fresh
\* insertion by what paired_insert returns.
C16_StatusesReturned == []C16_NoException /\ C16_DuplicateDistinct

\* a paired_insert has found the table full and left by the exception
C16_Reached ==
    /\ t_last.op = "paired_insert"
    /\ t_last.status = "table_full"
    /\ Received.how = "thrown"

\* the values of the low bits_per_item bits of a digest
DigestBits == 0..(Pow2(bits_per_item) - 1)

\* TagHash of a digest, by the digest's low bits_per_item bits
TagOfBits == [d \in DigestBits |-> TagHash(WFromNat(d))]

\* the pairs of digests (of the item under the seeds of buckets i1 and i2, by
\* their low bits) for which Contain returns Ok when the item's buckets are
\* i1 and i2
HitPairs(tbl, i1, i2) ==
    {p \in DigestBits \X DigestBits :
        FindTagInBuckets(tbl, i1, i2, TagOfBits[p[1]], TagOfBits[p[2]])}

\* the number of tags stored in bucket i of tbl
BucketLoad(tbl, i) == Cardinality({j \in DOMAIN tbl[i] : tbl[i][j] # 0})

\* C17: Filter false-positive bound. For an item that was never inserted,
\* whose two digests are independent of the stored tags and uniform, the
\* probability that Contain returns Ok is at most a small multiple of
\* 2^-bits_per_item: in every reachable state and for every pair of buckets,
\* the fraction of digest pairs for which the lookup hits is at most
\* 2 * (tags stored in the two buckets) / 2^bits_per_item, which is at most
\* 2 * (2 * kTagsPerBucket) / 2^bits_per_item (two buckets times associativity
\* probes, times two because TagHash folds the digests 0 and 1 into tag 1).
C17_FalsePositiveBound ==
    \A i1 \in DOMAIN table_ : \A i2 \in DOMAIN table_ :
        /\ Cardinality(HitPairs(table_, i1, i2)) * Pow2(bits_per_item)
              <= 2 * (BucketLoad(table_, i1) + BucketLoad(table_, i2))
                   * Cardinality(DigestBits \X DigestBits)
        /\ BucketLoad(table_, i1) + BucketLoad(table_, i2) <= 2 * kTagsPerBucket

\* Contain has returned Ok for an item that is not in the filter while the
\* filter holds one item: a false positive
C17_Reached ==
    /\ f_last.op = "Contain"
    /\ f_last.ret = Ok
    /\ f_ins[f_last.item] = 0
    /\ ~f_flags.misdeleted
    /\ Live = 1
    /\ num_items_ = 1

\* A chain of d relocations: the candidate bucket it starts at (0: i1, 1: i2)
\* and the slot whose occupant is relocated in each of the d buckets it visits
ChainsOfDepth(d) == [start : {0, 1}, slots : [1..d -> TSlots]]

\* the bucket that chain c has reached after k relocations, alt[key][bucket]
\* being the alternate bucket of an occupant
RECURSIVE ChainBucket(_, _, _, _, _, _)
ChainBucket(tbl, alt, i1, i2, c, k) ==
    IF k = 0 THEN (IF c.start = 0 THEN i1 ELSE i2)
    ELSE alt[tbl[ChainBucket(tbl, alt, i1, i2, c, k - 1)][c.slots[k]].key]
            [ChainBucket(tbl, alt, i1, i2, c, k - 1)]

\* chain c of depth d relocates occupants only and ends at a bucket with an
\* empty slot
ChainReachesEmpty(tbl, alt, i1, i2, c, d) ==
    /\ \A k \in 1..d : tbl[ChainBucket(tbl, alt, i1, i2, c, k - 1)][c.slots[k]].occupied
    /\ \E e \in TSlots : ~tbl[ChainBucket(tbl, alt, i1, i2, c, d)][e].occupied

\* the chains of depth d that reach an empty slot
ChainsToEmpty(tbl, alt, i1, i2, d) ==
    {c \in ChainsOfDepth(d) : ChainReachesEmpty(tbl, alt, i1, i2, c, d)}

\* the depths below MAX_BFS_PATH_LEN at which some chain reaches an empty slot
DepthsToEmpty(tbl, alt, i1, i2) ==
    {d \in 0..(MAX_BFS_PATH_LEN - 1) : ChainsToEmpty(tbl, alt, i1, i2, d) # {}}

\* the fewest relocations with which a chain reaches an empty slot, or -1
MinDepth(tbl, alt, i1, i2) ==
    IF DepthsToEmpty(tbl, alt, i1, i2) = {} THEN -1
    ELSE CHOOSE d \in DepthsToEmpty(tbl, alt, i1, i2) :
             \A e \in DepthsToEmpty(tbl, alt, i1, i2) : d <= e

\* the slot at which the scan of the bucket reached after k relocations
\* starts: the start index for a candidate bucket, else the slot relocated
\* before
ScanStart(c, k) == IF k = 0 THEN c.start % slot_per_bucket ELSE c.slots[k]

\* the place of slot s in the scan that starts at slot st
ScanPlace(st, s) == (s - st + slot_per_bucket) % slot_per_bucket

\* the place of chain c of depth d in breadth-first order among the chains
\* of depth d: by start bucket, then by the scan places of its slots
RECURSIVE BfsRank(_, _)
BfsRank(c, d) ==
    IF d = 0 THEN c.start
    ELSE BfsRank(c, d - 1) * slot_per_bucket + ScanPlace(ScanStart(c, d - 1), c.slots[d])

\* the chain of depth d that comes first in breadth-first order among those
\* that reach an empty slot
FirstChain(tbl, alt, i1, i2, d) ==
    CHOOSE c \in ChainsToEmpty(tbl, alt, i1, i2, d) :
        \A c2 \in ChainsToEmpty(tbl, alt, i1, i2, d) : BfsRank(c, d) <= BfsRank(c2, d)

\* the first empty slot of bucket b in the scan that starts at slot st
FirstEmpty(tbl, b, st) ==
    CHOOSE e \in TSlots :
        /\ ~tbl[b][e].occupied
        /\ \A e2 \in TSlots : ~tbl[b][e2].occupied => ScanPlace(st, e) <= ScanPlace(st, e2)

\* the pathcode of chain c of depth k: start, then the slots relocated
RECURSIVE ChainCode(_, _)
ChainCode(c, k) ==
    IF k = 0 THEN c.start ELSE ChainCode(c, k - 1) * slot_per_bucket + c.slots[k]

\* the b_slot that stands for chain c of depth d ending at its first empty slot
ChainEnd(tbl, alt, i1, i2, c, d) ==
    [bucket |-> ChainBucket(tbl, alt, i1, i2, c, d),
     pathcode |-> ChainCode(c, d) * slot_per_bucket
                     + FirstEmpty(tbl, ChainBucket(tbl, alt, i1, i2, c, d), ScanStart(c, d)),
     depth |-> d]

\* what a shortest-path search returns on the graph given by alt: the end of
\* the first chain in breadth-first order among the shortest ones
ShortestFirst(tbl, alt, i1, i2) ==
    ChainEnd(tbl, alt, i1, i2,
             FirstChain(tbl, alt, i1, i2, MinDepth(tbl, alt, i1, i2)),
             MinDepth(tbl, alt, i1, i2))

\* C18: Table BFS returns a shortest augmenting path. When both candidate
\* buckets are full and slot_search succeeds, no chain that starts at a
\* candidate bucket and follows the occupants' alternate buckets reaches an
\* empty slot with fewer relocations than the depth returned, and the b_slot
\* returned is the end of the first such chain of that depth in breadth-first
\* order, at the first empty slot of its bucket.
C18_ShortestPath ==
    (/\ t_pc = "run_cuckoo"
     /\ slot_search(buckets_, hashpower, t_call.i1, t_call.i2).x.depth >= 0)
        => slot_search(buckets_, hashpower, t_call.i1, t_call.i2).x
              = ShortestFirst(buckets_, AltOfHashed[hashpower][hash_fn_], t_call.i1, t_call.i2)

\* slot_search returns the shortest first path of the graph in which the
\* alternate bucket of an occupant is computed from its key taken as the hash
\* value
C18_ShortestInSearchGraph ==
    (/\ t_pc = "run_cuckoo"
     /\ slot_search(buckets_, hashpower, t_call.i1, t_call.i2).x.depth >= 0)
        => slot_search(buckets_, hashpower, t_call.i1, t_call.i2).x
              = ShortestFirst(buckets_, AltOfKey[hashpower], t_call.i1, t_call.i2)

\* slot_search is about to return a path of two relocations or more
C18_Reached ==
    /\ t_pc = "run_cuckoo"
    /\ slot_search(buckets_, hashpower, t_call.i1, t_call.i2).x.depth >= 2

\* C19: Table BFS is complete within its bound. paired_insert signals table
\* full only if no chain of at most MAX_BFS_PATH_LEN - 1 relocations that
\* starts at a candidate bucket of the key and follows each occupant's true
\* alternate bucket alt_index(hp, hashed_key(occupant), bucket) reaches an
\* empty slot.
C19_SearchComplete ==
    [][(t_pc = "run_cuckoo" /\ t_pc' = "idle" /\ t_last'.status = "table_full")
          => DepthsToEmpty(buckets_, AltOfHashed[hashpower][hash_fn_],
                           t_call.i1, t_call.i2) = {}]_vars

\* table full is signalled only if the graph that slot_search walks has no
\* chain to an empty slot
C19_CompleteInSearchGraph ==
    [][(t_pc = "run_cuckoo" /\ t_pc' = "idle" /\ t_last'.status = "table_full")
          => DepthsToEmpty(buckets_, AltOfKey[hashpower], t_call.i1, t_call.i2) = {}]_vars

\* a paired_insert has signalled table full while the table has an empty slot
C19_Reached ==
    /\ t_last.op = "paired_insert"
    /\ t_last.status = "table_full"
    /\ \E b \in DOMAIN buckets_ : \E j \in TSlots : ~buckets_[b][j].occupied

\* the keys stored in tbl
StoredKeys(tbl) ==
    {tbl[p[1]][p[2]].key : p \in {q \in (DOMAIN tbl) \X TSlots : tbl[q[1]][q[2]].occupied}}

\* the slot of tbl at the position p = <<bucket, slot>>
SlotAt(tbl, p) == tbl[p[1]][p[2]]

\* record k of the cuckoo path that an insertion has used, read off the
\* trail it returned: the trail holds the targets of the moves from the end
\* of the path to record 1, and last the position of the new key, record 0
PathRecord(trail, k) == trail[Len(trail) - k]

\* the insertion of key that turned the buckets old into new and returned
\* trail has moved each key of its path one record on, into its alternate
\* bucket, filled the empty end of the path, put key into the vacated start
\* of the path and left every other slot alone
PathMoved(old, new, key, trail) ==
    /\ StoredKeys(new) = StoredKeys(old) \cup {key}
    /\ key \notin StoredKeys(old)
    /\ OccupiedCount(new) = OccupiedCount(old) + 1
    /\ Cardinality(StoredKeys(new)) = OccupiedCount(new)
    /\ \A k \in 1..(Len(trail) - 1) :
          /\ SlotAt(old, PathRecord(trail, k - 1)).occupied
          /\ SlotAt(new, PathRecord(trail, k))
                = [occupied |-> TRUE, key |-> SlotAt(old, PathRecord(trail, k - 1)).key]
          /\ {PathRecord(trail, k - 1)[1], PathRecord(trail, k)[1]}
                = {KeyBuckets[hashpower][hash_fn_][SlotAt(old, PathRecord(trail, k - 1)).key].i1,
                   KeyBuckets[hashpower][hash_fn_][SlotAt(old, PathRecord(trail, k - 1)).key].i2}
    /\ ~SlotAt(old, PathRecord(trail, Len(trail) - 1)).occupied
    /\ SlotAt(new, PathRecord(trail, Len(trail) - 1)).occupied
    /\ SlotAt(new, PathRecord(trail, 0)) = [occupied |-> TRUE, key |-> key]
    /\ \A p \in (DOMAIN old) \X TSlots :
          (\A k \in 0..(Len(trail) - 1) : PathRecord(trail, k) # p)
              => SlotAt(new, p) = SlotAt(old, p)

\* the positions of the cuckoo path of depth d that an insertion has used
\* last: the last d + 1 positions of the trail it returned
FinalPath(trail, d) == SubSeq(trail, Len(trail) - d, Len(trail))

\* C20: Table path move conserves keys. After a paired_insert that has used
\* a cuckoo path of depth d, the stored keys are the ones stored when the
\* call began plus the new key, none lost and none stored twice; each of the
\* d relocated keys has moved exactly one record on along the path, into its
\* alternate bucket; the empty end of the path is now occupied; the new key
\* occupies the vacated start of the path; no other slot has changed since
\* the call began.
C20_PathMoveConserves ==
    [][(t_pc = "run_cuckoo" /\ t_pc' = "idle" /\ t_last'.status = "ok")
          => \A s \in {cuckoopath_search(buckets_, hashpower, hash_fn_, t_call.i1, t_call.i2)} :
                /\ s.depth >= 1
                /\ Len(t_last'.trail) >= s.depth + 1
                /\ PathMoved(t_call.start, buckets_', t_last'.key,
                             FinalPath(t_last'.trail, s.depth))]_vars

\* a call of paired_insert that has moved keys along a path it then gave up
\* has found another path, of depth 1 or more, along which the move is
\* about to succeed
C20_Reached ==
    /\ t_pc = "run_cuckoo"
    /\ t_call.trail # <<>>
    /\ buckets_ # t_call.start
    /\ \E s \in {cuckoopath_search(buckets_, hashpower, hash_fn_, t_call.i1, t_call.i2)} :
          /\ ~s.asserted
          /\ s.depth >= 1
          /\ cuckoopath_move(buckets_, hash_fn_, s.path, s.depth,
                             t_call.i1, t_call.i2, t_call.trail).ret

\* the positions <<bucket, slot>> of tbl at which key is stored
PositionsOf(tbl, key) ==
    {p \in (DOMAIN tbl) \X TSlots : tbl[p[1]][p[2]].occupied /\ tbl[p[1]][p[2]].key = key}

\* the keys stored in old that are stored elsewhere in new
RelocatedKeys(old, new) ==
    {k \in StoredKeys(old) : PositionsOf(new, k) # PositionsOf(old, k)}

\* the positions whose slot differs between old and new
ChangedSlots(old, new) ==
    {p \in (DOMAIN old) \X TSlots : new[p[1]][p[2]] # old[p[1]][p[2]]}

\* slot_search enqueues no b_slot deeper than MAX_BFS_PATH_LEN - 1, so the
\* b_slot it returns and the path that cuckoopath_search decodes from it have
\* at most MAX_BFS_PATH_LEN records
C21_PathBounded ==
    (t_pc = "run_cuckoo")
        => (/\ \A w \in {slot_search(buckets_, hashpower, t_call.i1, t_call.i2)} :
                  /\ \A n \in 1..Len(w.slots) : w.slots[n].depth <= MAX_BFS_PATH_LEN - 1
                  /\ w.x.depth <= MAX_BFS_PATH_LEN - 1
            /\ Len(cuckoopath_search(buckets_, hashpower, hash_fn_, t_call.i1, t_call.i2).path)
                  <= MAX_BFS_PATH_LEN)

\* the buckets at the call of the paired_insert that the step ends
CallStart == IF t_pc = "run_cuckoo" THEN t_call.start ELSE buckets_

\* the depth of the cuckoo path along which the step that ends a
\* paired_insert with ok has moved keys
UsedDepth ==
    IF t_pc = "run_cuckoo"
    THEN cuckoopath_search(buckets_, hashpower, hash_fn_, t_call.i1, t_call.i2).depth
    ELSE 0

\* C21: Table bounded relocation. A cuckoo path holds at most
\* MAX_BFS_PATH_LEN = 5 records (depth at most 4); a paired_insert relocates
\* at most 4 of the keys stored when it was called; one that returns ok has
\* made at most 4 moves, one for each record of its path but the last, and
\* has changed no slot that is not on its path; a call that ends otherwise
\* has changed no slot at all.
C21_BoundedRelocation ==
    /\ []C21_PathBounded
    /\ [](t_pc = "run_cuckoo"
            => Cardinality(RelocatedKeys(t_call.start, buckets_)) <= MAX_BFS_PATH_LEN - 1)
    /\ [][(t_last' # t_last /\ t_last'.op = "paired_insert" /\ t_last'.status = "ok")
              => (/\ Len(t_last'.trail) <= MAX_BFS_PATH_LEN
                  /\ Len(t_last'.trail) = UsedDepth + 1
                  /\ Cardinality(RelocatedKeys(CallStart, buckets_')) = UsedDepth
                  /\ Cardinality(RelocatedKeys(CallStart, buckets_')) <= MAX_BFS_PATH_LEN - 1
                  /\ ChangedSlots(CallStart, buckets_')
                        \subseteq {t_last'.trail[n] :
                                      n \in (Len(t_last'.trail) - UsedDepth)..Len(t_last'.trail)})]_vars
    /\ [][(t_pc' = "idle" /\ ~(t_last' # t_last /\ t_last'.op = "paired_insert"
                                                /\ t_last'.status = "ok"))
              => buckets_' = CallStart]_vars

\* a paired_insert has returned ok after more moves than a cuckoo path has
\* places for: it has moved keys along a path it gave up and along another
C21_Reached ==
    /\ t_pc = "idle"
    /\ t_last.op = "paired_insert"
    /\ t_last.status = "ok"
    /\ Len(t_last.trail) > MAX_BFS_PATH_LEN
    /\ t_last.key \in StoredKeys(buckets_)

\* bucket b of the table has an empty slot
HasEmptySlot(b) == \E j \in TSlots : ~buckets_[b][j].occupied

\* the step is a call of paired_insert(key) made in the current state: it has
\* either returned or gone into run_cuckoo
InsertCalled(key) ==
    /\ t_pc = "idle"
    /\ \/ t_pc' = "run_cuckoo" /\ t_call'.key = key
       \/ t_pc' = "idle" /\ t_last'.op = "paired_insert" /\ t_last'.key = key

\* C22: Table immediate insertion. When the key is stored in neither of its
\* candidate buckets and one of them has an empty slot, paired_insert returns
\* ok at once: the key is written into a slot that was empty, in the primary
\* bucket when that has an empty slot and else in the alternate bucket; no
\* stored key is moved and no other slot changes.
C22_ImmediateInsert ==
    [][\A key \in Keys :
          (/\ InsertCalled(key)
           /\ PositionsOf(buckets_, key) = {}
           /\ \/ HasEmptySlot(KeyBuckets[hashpower][hash_fn_][key].i1)
              \/ HasEmptySlot(KeyBuckets[hashpower][hash_fn_][key].i2))
              => (/\ t_pc' = "idle"
                  /\ t_last'.status = "ok"
                  /\ t_last'.trail = <<<<t_last'.index, t_last'.slot>>>>
                  /\ ~buckets_[t_last'.index][t_last'.slot].occupied
                  /\ buckets_'[t_last'.index][t_last'.slot] = [occupied |-> TRUE, key |-> key]
                  /\ t_last'.index = (IF HasEmptySlot(KeyBuckets[hashpower][hash_fn_][key].i1)
                                      THEN KeyBuckets[hashpower][hash_fn_][key].i1
                                      ELSE KeyBuckets[hashpower][hash_fn_][key].i2)
                  /\ ChangedSlots(buckets_, buckets_') = {<<t_last'.index, t_last'.slot>>}
                  /\ RelocatedKeys(buckets_, buckets_') = {})]_vars

\* a paired_insert has written its key into the alternate bucket at once,
\* the primary bucket being full
C22_Reached ==
    /\ t_last.op = "paired_insert"
    /\ t_last.status = "ok"
    /\ Len(t_last.trail) = 1
    /\ t_last.index # KeyBuckets[hashpower][hash_fn_][t_last.key].i1
    /\ ~HasEmptySlot(KeyBuckets[hashpower][hash_fn_][t_last.key].i1)

\* the bucket of the i-th b_slot on the way by which slot_search came to the
\* b_slot x it returned: the starting bucket named by the pathcode, and from
\* there the bucket enqueued for the slot that the pathcode names (line 799)
RECURSIVE TraversedBucket(_, _, _, _, _, _)
TraversedBucket(tbl, hp, i1, i2, x, i) ==
    IF i = 0 THEN (IF PathStart(x) = 0 THEN i1 ELSE i2)
    ELSE CHOOSE r \in {AltOfKey[hp][tbl[b][PathSlot(x, i - 1)].key][b] :
                          b \in {TraversedBucket(tbl, hp, i1, i2, x, i - 1)}} : TRUE

\* the cuckoo path s rebuilt from the result w of slot_search is the way
\* slot_search went, it ends in the unoccupied slot found, and moving along
\* it succeeds
PathFaithful(w, s, m) ==
    /\ ~s.asserted
    /\ s.depth = w.x.depth
    /\ Len(s.path) = w.x.depth + 1
    /\ \A i \in 0..(Len(s.path) - 1) :
          /\ s.path[i + 1].bucket = TraversedBucket(buckets_, hashpower, t_call.i1, t_call.i2, w.x, i)
          /\ s.path[i + 1].slot = PathSlot(w.x, i)
    /\ s.path[Len(s.path)].bucket = w.x.bucket
    /\ ~buckets_[s.path[Len(s.path)].bucket][s.path[Len(s.path)].slot].occupied
    /\ m.ret
    /\ ~m.asserted

\* the search of the current iteration of run_cuckoo has found a slot and
\* its path is faithful
SearchFaithful ==
    \A w \in {slot_search(buckets_, hashpower, t_call.i1, t_call.i2)} :
       (~w.asserted /\ w.x.depth >= 0)
          => \A s \in {cuckoopath_searched(buckets_, hashpower, hash_fn_, t_call.i1, t_call.i2, w)} :
                \A m \in {cuckoopath_move(buckets_, hash_fn_, s.path, s.depth,
                                          t_call.i1, t_call.i2, t_call.trail)} :
                   PathFaithful(w, s, m)

\* C23: Table path reconstruction is faithful for any hash function. In
\* every iteration of run_cuckoo in which slot_search finds an unoccupied
\* slot, the path that cuckoopath_search rebuilds starts in the same
\* candidate bucket, goes through the buckets and slots that slot_search went
\* through, ends in the unoccupied slot found, and cuckoopath_move succeeds
\* along it.
C23_PathFaithful == (t_pc = "run_cuckoo") => SearchFaithful

\* the same with Hash the identity (std::hash<uint64_t>)
C23_FaithfulIdentityHash == (t_pc = "run_cuckoo" /\ hash_fn_ = 1) => SearchFaithful

\* run_cuckoo is about to rebuild a path of at least one relocation, with a
\* Hash that is not the identity
C23_Reached ==
    /\ t_pc = "run_cuckoo"
    /\ hash_fn_ # 1
    /\ \E w \in {slot_search(buckets_, hashpower, t_call.i1, t_call.i2)} :
          ~w.asserted /\ w.x.depth >= 1

\* C24: Table insertion-slot assertions are valid. No assertion of the
\* insertion fails in a reachable state, and whenever an iteration of
\* run_cuckoo ends with cuckoopath_move returning true, the reported slot
\* (cuckoo_path[0]) is unoccupied after the move, its bucket is b.i1 or b.i2,
\* and it is a candidate bucket of the key being inserted.
C24_AssertionsValid ==
    /\ t_pc # "aborted"
    /\ t_last.status # "assert"
    /\ (t_pc = "run_cuckoo")
          => \A s \in {cuckoopath_search(buckets_, hashpower, hash_fn_, t_call.i1, t_call.i2)} :
                /\ ~s.asserted
                /\ (s.depth >= 0)
                      => \A m \in {cuckoopath_move(buckets_, hash_fn_, s.path, s.depth,
                                                    t_call.i1, t_call.i2, t_call.trail)} :
                            /\ ~m.asserted
                            /\ m.ret => (/\ s.path[1].bucket \in {t_call.i1, t_call.i2}
                                         /\ ~m.tbl[s.path[1].bucket][s.path[1].slot].occupied
                                         /\ IsCandidate(hashpower, hash_fn_, t_call.key, s.path[1].bucket))

\* run_cuckoo has returned ok with a slot of the alternate bucket, freed by
\* a move, with a Hash that is not the identity
C24_Reached ==
    /\ t_pc = "idle"
    /\ t_last.op = "paired_insert"
    /\ t_last.status = "ok"
    /\ Len(t_last.trail) >= 2
    /\ hash_fn_ # 1
    /\ t_last.index = KeyBuckets[hashpower][hash_fn_][t_last.key].i2
    /\ t_last.index # KeyBuckets[hashpower][hash_fn_][t_last.key].i1
    /\ buckets_[t_last.index][t_last.slot] = [occupied |-> TRUE, key |-> t_last.key]

\* 1 + s + ... + s^(n-1)
RECURSIVE GeometricSum(_, _)
GeometricSum(s, n) == IF n = 0 THEN 0 ELSE 1 + s * GeometricSum(s, n - 1)

\* C25: Table BFS queue never overflows. In every slot_search that run_cuckoo
\* makes, the number of b_slots enqueued is at most MAX_CUCKOO_COUNT, which
\* is twice the geometric sum 1 + S + ... + S^(L-1), that is
\* 2 * (S^L - 1) / (S - 1) when S > 1, for S = slot_per_bucket and
\* L = MAX_BFS_PATH_LEN; every enqueued b_slot has a depth from 0 to L - 1;
\* and the assertion of enqueue does not fail.
C25_QueueNeverOverflows ==
    /\ MAX_CUCKOO_COUNT = 2 * GeometricSum(slot_per_bucket, MAX_BFS_PATH_LEN)
    /\ (slot_per_bucket > 1)
          => MAX_CUCKOO_COUNT * (slot_per_bucket - 1) = 2 * (slot_per_bucket ^ MAX_BFS_PATH_LEN - 1)
    /\ (t_pc = "run_cuckoo")
          => \A w \in {slot_search(buckets_, hashpower, t_call.i1, t_call.i2)} :
                /\ ~w.asserted
                /\ Len(w.slots) <= MAX_CUCKOO_COUNT
                /\ \A n \in 1..Len(w.slots) : w.slots[n].depth \in 0..(MAX_BFS_PATH_LEN - 1)
                /\ \A d \in 0..(MAX_BFS_PATH_LEN - 1) :
                      Cardinality({n \in 1..Len(w.slots) : w.slots[n].depth = d})
                          <= 2 * slot_per_bucket ^ d

\* a slot_search that fills the queue to its last place, in a table with
\* more than one slot per bucket
C25_Reached ==
    /\ t_pc = "run_cuckoo"
    /\ slot_per_bucket > 1
    /\ \E w \in {slot_search(buckets_, hashpower, t_call.i1, t_call.i2)} :
          Len(w.slots) = MAX_CUCKOO_COUNT /\ w.x.depth = -1

\* C26: Filter eviction walk conserves tags. An Add that returns Ok leaves
\* one more instance of the added item's tag among the stored tags (slots
\* and victim) than there was, and as many instances of every other tag as
\* there were, whether the walk placed a tag or stored a victim.
C26_WalkConservesTags ==
    [][(f_last'.op = "Add" /\ f_last'.ret = Ok)
          => \A t \in 1..MaxTag :
                TagCount(table_', victim_', t)
                    = TagCount(table_, victim_, t)
                        + (IF t = ItemHashes[ThisFilter][f_last'.item].one.tag THEN 1 ELSE 0)]_vars

\* an Add has returned Ok after a walk that evicted a tag and then placed
\* the tag it carried
C26_Reached ==
    /\ f_last.op = "Add"
    /\ f_last.ret = Ok
    /\ f_last.count >= 2
    /\ f_last.count < kMaxCuckooCount
    /\ ~victim_.used

\* the iteration of the loop of AddImpl that leads from w to v evicts: it
\* writes the carried tag over one occupant of the current bucket and goes
\* on with that occupant at the alternate index computed from its value
Evicts(w, v, c) ==
    /\ ~v.placed
    /\ v.count = w.count + 1
    /\ \E j \in Slots :
          /\ v.tbl = [w.tbl EXCEPT ![w.curindex][j] = w.curtag]
          /\ v.curtag = w.tbl[w.curindex][j]
    /\ v.curindex = TagAltIndex[c][w.curindex][v.curtag]

\* the iteration that leads from w to v changes no slot and goes on with
\* the same tag at its alternate index
PassesOn(w, v, c) ==
    /\ ~v.placed
    /\ v.count = w.count + 1
    /\ v.tbl = w.tbl
    /\ v.curtag = w.curtag
    /\ v.curindex = TagAltIndex[c][w.curindex][w.curtag]

\* what an iteration from w to v that finds its bucket full does: it evicts,
\* on every attempt if always, and else on every attempt but the first
FullBucketStep(w, v, c, always) ==
    (\A j \in Slots : w.tbl[w.curindex][j] # 0)
        => IF always \/ w.count > 0 THEN Evicts(w, v, c) ELSE PassesOn(w, v, c)

\* at most k iterations of the walk from w on, with whether each of them did
\* what FullBucketStep says
RECURSIVE WalkStretchChecked(_, _, _, _)
WalkStretchChecked(w, k, c, always) ==
    IF k = 0 \/ w.placed \/ w.count >= kMaxCuckooCount
    THEN [ok |-> TRUE, w |-> w]
    ELSE CHOOSE r \in {IF FullBucketStep(w, v, c, always)
                       THEN WalkStretchChecked(v, k - 1, c, always)
                       ELSE [ok |-> FALSE, w |-> v] : v \in {AddImplIter(w, c)}} : TRUE

\* every iteration of the walk from w to its end did what FullBucketStep says
RECURSIVE WalkChecked(_, _, _)
WalkChecked(w, c, always) ==
    IF w.placed \/ w.count >= kMaxCuckooCount
    THEN TRUE
    ELSE \A r \in {WalkStretchChecked(w, LoopStretch, c, always)} :
            r.ok /\ WalkChecked(r.w, c, always)

\* the walk that Add(item) makes in the current state
WalkOfAdd(item, always) ==
    WalkChecked([tbl |-> table_, placed |-> FALSE,
                 curindex |-> ItemHashes[ThisFilter][item].one.index,
                 curtag |-> ItemHashes[ThisFilter][item].one.tag, count |-> 0],
                ThisFilter, always)

\* C27: Filter eviction step. Whenever the walk of an Add finds its current
\* bucket full, on the first attempt as on the later ones, it writes the
\* carried tag over one occupant and goes on with that occupant at the
\* alternate index of the current bucket computed from the occupant's value.
C27_EvictsOnEveryAttempt ==
    [][(f_last'.op = "Add" /\ f_last'.count >= 0) => WalkOfAdd(f_last'.item, TRUE)]_vars

\* C27 as the code has it: the walk evicts on every attempt after the first;
\* on the first attempt a full primary bucket is left as it is and the walk
\* goes on with the item's own tag at the alternate index of the primary
\* bucket.
C27_EvictsAfterFirstAttempt ==
    [][(f_last'.op = "Add" /\ f_last'.count >= 0) => WalkOfAdd(f_last'.item, FALSE)]_vars

\* an Add has found the item's primary bucket full on its first attempt, has
\* gone to the alternate bucket and evicted there, and has then placed the
\* evicted tag; the primary bucket is as full as it was
C27_Reached ==
    /\ f_last.op = "Add"
    /\ f_last.ret = Ok
    /\ f_last.count >= 2
    /\ f_last.count < kMaxCuckooCount
    /\ \A j \in Slots : table_[ItemHashes[ThisFilter][f_last.item].one.index][j] # 0

\* the end of the loop of the AddImpl that Add(item) calls in the current
\* state
WalkEndOfAdd(item) ==
    AddImplLoop([tbl |-> table_, placed |-> FALSE,
                 curindex |-> ItemHashes[ThisFilter][item].one.index,
                 curtag |-> ItemHashes[ThisFilter][item].one.tag, count |-> 0], ThisFilter)

\* C28: Filter kick bound. The walk of an AddImpl, called by Add or by
\* Delete for the victim, ends after at most kMaxCuckooCount attempts and the
\* call returns Ok: when one attempt found a free slot no victim is held
\* afterwards, and when none did the tag carried after the last attempt and
\* its current index are held as the victim.
C28_KickBound ==
    /\ kMaxCuckooCount = 500
    /\ [][(f_last'.op \in {"Add", "Delete"} /\ f_last'.count >= 0)
             => (/\ f_last'.count <= kMaxCuckooCount
                 /\ f_last'.ret = Ok
                 /\ victim_'.used <=> (f_last'.count = kMaxCuckooCount)
                 /\ (f_last'.op = "Add")
                       => \A w \in {WalkEndOfAdd(f_last'.item)} :
                             /\ w.count = f_last'.count
                             /\ w.placed <=> (w.count < kMaxCuckooCount)
                             /\ table_' = w.tbl
                             /\ ~w.placed
                                   => victim_' = [index |-> w.curindex, tag |-> w.curtag,
                                                  used |-> TRUE])]_vars

\* an Add has made kMaxCuckooCount attempts without finding a free slot and
\* the victim it has stored is a tag evicted on the way, not the item's own
C28_Reached ==
    /\ f_last.op = "Add"
    /\ f_last.count = kMaxCuckooCount
    /\ victim_.used
    /\ victim_.tag # ItemHashes[ThisFilter][f_last.item].one.tag

\* a Delete has inserted the victim again, and the walk has made
\* kMaxCuckooCount attempts and stored a victim anew
C28_DeleteReached ==
    /\ f_last.op = "Delete"
    /\ f_last.count = kMaxCuckooCount
    /\ victim_.used

\* the pairs (bucket, tag) that Contain(item) hands to FindTagInBuckets
ContainProbes(item) ==
    {<<ItemHashes[ThisFilter][item].two.i1, ItemHashes[ThisFilter][item].two.tag1>>,
     <<ItemHashes[ThisFilter][item].two.i2, ItemHashes[ThisFilter][item].two.tag2>>}

\* the pairs (bucket, tag) under which AddImpl stores the item first and
\* which Delete(item) hands to DeleteTagFromBucket
DeleteProbes(item) ==
    {<<ItemHashes[ThisFilter][item].one.index, ItemHashes[ThisFilter][item].one.tag>>,
     <<TagAltIndex[ThisFilter][ItemHashes[ThisFilter][item].one.index]
                              [ItemHashes[ThisFilter][item].one.tag],
       ItemHashes[ThisFilter][item].one.tag>>}

\* C29: Filter lookup, insertion and deletion agree on where an item can be.
\* For every item looked up, Contain probes exactly the pairs (i1, t) and
\* (AltIndex(i1, t), t), with i1 the item's primary index and t its tag under
\* the seed of bucket i1, which are the pairs that AddImpl stores under and
\* Delete probes; so a Contain returns Ok exactly when one of these holds
\* the tag.
C29_ProbesAgree ==
    (f_last.op = "Contain")
        => (/\ ContainProbes(f_last.item) = DeleteProbes(f_last.item)
            /\ f_last.ret = Ok
                  <=> \E p \in DeleteProbes(f_last.item) : \E j \in Slots : table_[p[1]][j] = p[2])

\* the first of the two pairs is the same in Contain, AddImpl and Delete
C29_PrimaryProbeAgrees ==
    \A item \in Items :
       <<ItemHashes[ThisFilter][item].two.i1, ItemHashes[ThisFilter][item].two.tag1>>
           = <<ItemHashes[ThisFilter][item].one.index, ItemHashes[ThisFilter][item].one.tag>>

\* a Contain has been made for an item whose tag is held in the alternate
\* bucket that AddImpl and Delete compute, which Contain does not probe
C29_Reached ==
    /\ f_last.op = "Contain"
    /\ \E p \in DeleteProbes(f_last.item) \ ContainProbes(f_last.item) :
          \E j \in Slots : table_[p[1]][j] = p[2]

\* the victim is the only stored copy of the item's tag: it holds the tag at
\* one of the two buckets that AddImpl and Delete use for the item, and no
\* slot of the table holds the tag
OnlyCopyIsVictim(item) ==
    /\ victim_.used
    /\ \E p \in DeleteProbes(item) : victim_.index = p[1] /\ victim_.tag = p[2]
    /\ TagCount(table_, victim_, ItemHashes[ThisFilter][item].one.tag) = 1

\* C30: Filter lookup is victim-blind. In a state where the only stored copy
\* of an item's tag is the victim, Contain(item) returns NotFound and
\* Delete(item) returns Ok.
C30_VictimBlind ==
    \A item \in Items :
       OnlyCopyIsVictim(item)
          => (ContainStatus(item) = NotFound /\ DeleteResult(item).ret = Ok)

\* the victim is the only stored copy of the tag of an item that was added
C30_Reached ==
    \E item \in Items : f_ins[item] > 0 /\ OnlyCopyIsVictim(item)

\* C30 where the second tag that Contain derives is the item's tag: Contain
\* returns NotFound and Delete returns Ok
C30_VictimBlindSameTag ==
    \A item \in Items :
       (/\ OnlyCopyIsVictim(item)
        /\ ItemHashes[ThisFilter][item].two.tag2 = ItemHashes[ThisFilter][item].one.tag)
          => (ContainStatus(item) = NotFound /\ DeleteResult(item).ret = Ok)

\* Delete returns Ok whenever the victim is the only stored copy of the
\* item's tag
C30_DeleteFindsVictim ==
    \A item \in Items : OnlyCopyIsVictim(item) => DeleteResult(item).ret = Ok

\* the step is a call that fails or only looks up: an Add that returns
\* NotEnoughSpace, a Delete that returns NotFound, or a Contain
FailsOrLooksUp ==
    \/ f_last'.op = "Add" /\ f_last'.ret = NotEnoughSpace
    \/ f_last'.op = "Delete" /\ f_last'.ret = NotFound
    \/ f_last'.op = "Contain"

\* C31: Filter failures leave the state unchanged. An Add that returns
\* NotEnoughSpace, a Delete that returns NotFound and every Contain leave
\* every bucket slot, the victim and Size() (num_items_) as they were.
C31_FailuresChangeNothing ==
    [][FailsOrLooksUp
          => (table_' = table_ /\ victim_' = victim_ /\ num_items_' = num_items_)]_vars

\* a Delete has returned NotFound in a filter that holds tags and a victim
C31_Reached ==
    /\ f_last.op = "Delete"
    /\ f_last.ret = NotFound
    /\ victim_.used
    /\ num_items_ > 0
    /\ f_ins[f_last.item] = 0

\* the digests 0 .. MaxDigest are given to TagHash
MaxDigest == 16

\* the digest from which GenerateIndexTagHash derives the tag of item
DigestOf(item) ==
    Hasher(ItemWords[item], seeds_[ItemHashes[ThisFilter][item].one.index + 1])

\* C32: Filter tags are never zero. TagHash of every digest lies in
\* 1 .. 2^bits_per_item - 1, a digest whose low bits are zero giving 1; in
\* every reachable state every slot holds 0 (empty) or a tag in that range,
\* a held victim carries a tag in that range, and every tag placed occupies
\* a slot (num_items_ counts the slots that are not empty).
C32_TagsNeverZero ==
    /\ \A n \in 0..MaxDigest :
          /\ TagHash(WFromNat(n)) \in 1..MaxTag
          /\ (n % Pow2(bits_per_item) = 0) => TagHash(WFromNat(n)) = 1
          /\ (n % Pow2(bits_per_item) # 0) => TagHash(WFromNat(n)) = n % Pow2(bits_per_item)
    /\ \A item \in Items : TagHash(DigestOf(item)) \in 1..MaxTag
    /\ \A b \in DOMAIN table_ : \A j \in Slots : table_[b][j] \in 0..MaxTag
    /\ victim_.used => victim_.tag \in 1..MaxTag
    /\ num_items_ = OccupiedSlots(table_)

\* an item whose digest has its low bits zero has been added, and its tag,
\* 1, is held in a slot
C32_Reached ==
    /\ f_last.op = "Add"
    /\ f_last.ret = Ok
    /\ ~victim_.used
    /\ WModNat(DigestOf(f_last.item), Pow2(bits_per_item)) = 0
    /\ ItemHashes[ThisFilter][f_last.item].one.tag = 1
    /\ TagCount(table_, victim_, 1) = 1


----------------------------------------------------------------------------
(* The filter built without a seed table                                   *)

OrdinaryStatus == {Ok, NotFound, NotEnoughSpace}

\* C33: on a filter constructed from a capacity alone, with no seed table,
\* every Add, Contain and Delete computes a tag under a default seed and
\* completes with an ordinary status (Ok, NotFound or NotEnoughSpace)
\* instead of failing on a missing seed entry.
C33_DefaultSeedWorks ==
    (seeds_ = <<>> /\ f_last.op \in {"Add", "Contain", "Delete"})
        => f_last.ret \in OrdinaryStatus

\* an Add on a filter built from a capacity alone has failed on the seed
\* entry of the item's primary bucket, before any tag was computed
C33_Reached ==
    /\ seeds_ = <<>>
    /\ nb_ = DefaultNumBuckets(MaxDefaultKeys)
    /\ f_last.op = "Add"
    /\ f_last.ret = OutOfRange
    /\ num_items_ = 0

\* what the code does instead: every Add, Contain and Delete on such a
\* filter ends in std::out_of_range and stores nothing; only the tags that
\* CopyInsert has written are in the table
C33_EveryCallThrows ==
    /\ f_last.op \in {"Add", "Contain", "Delete"} => f_last.ret = OutOfRange
    /\ num_items_ = OccupiedSlots(table_)
    /\ num_items_ = f_flags.copies
    /\ ~victim_.used

====
